---- MODULE Spec2Model ----
(***************************************************************************)
(* Model of maintenance_bot.py: the timer registry (`timers`), the global  *)
(* settings, the persisted JSON document, the slash-command handlers and   *)
(* the periodic due-check task `check_timers_task`.                        *)
(*                                                                         *)
(* Time is an integer number of clock units; DayLen units make one day, so *)
(* that a datetime has a date part (t \div DayLen) and a time-of-day part  *)
(* (t % DayLen).  An optional value (Python None or a value) is a sequence *)
(* of length 0 or 1.                                                       *)
(*                                                                         *)
(* The bot runs on one asyncio event loop.  A coroutine runs without       *)
(* interruption up to its next `await` of real I/O.  check_timers_task has *)
(* one such suspension point per timer, `await channel.send(...)`; each    *)
(* command handler changes state before its only await.  Hence a command   *)
(* or a clock step is enabled only while the task is idle or suspended in  *)
(* a send, and the task's own steps between two suspensions are never      *)
(* interleaved with anything else.                                         *)
(***************************************************************************)
EXTENDS Integers, Sequences, FiniteSets, TLC

VARIABLES
    timers,           \* dict guild_id -> dict name -> timer, in insertion order
    global_settings,  \* [reminder_repeat_days |-> n]
    file,             \* content of DATA_FILE
    clock,            \* datetime.utcnow()
    channels,         \* channel ids bot.get_channel() resolves
    tick,             \* locals and position of check_timers_task
    obs               \* observation of the running tick (history)

vars == <<timers, global_settings, file, clock, channels, tick, obs>>

----------------------------------------------------------------------------
(* Bounds of the model *)

DayLen == 2
MaxTime == 4
MaxTimers == 2
MaxRepeatDays == 1
MaxInterleave == 2
(* datetime.max, the last instant a datetime can hold *)
DatetimeMax == 200

(* Program constants *)

DEFAULT_REMINDER_DAYS == 7

----------------------------------------------------------------------------
(* Optional values *)

None == <<>>
Some(v) == <<v>>
Val(o) == o[1]

(* Python dict, insertion ordered: a sequence of [k, v] entries with       *)
(* pairwise different keys.                                                *)

EmptyDict == <<>>
Keys(d) == [i \in 1..Len(d) |-> d[i].k]
KeySet(d) == {d[i].k : i \in 1..Len(d)}
Has(d, k) == \E i \in 1..Len(d) : d[i].k = k
Get(d, k) == d[CHOOSE i \in 1..Len(d) : d[i].k = k].v
Put(d, k, v) ==
    IF Has(d, k)
    THEN [i \in 1..Len(d) |-> IF d[i].k = k THEN [k |-> k, v |-> v] ELSE d[i]]
    ELSE Append(d, [k |-> k, v |-> v])
DelKey(d, k) == SelectSeq(d, LAMBDA e : e.k # k)

(* Registry access: timers[guild_id][name] *)

HasGuild(T, g) == Has(T, g)
HasTimer(T, g, n) == Has(T, g) /\ Has(Get(T, g), n)
Timer(T, g, n) == Get(Get(T, g), n)
SetTimer(T, g, n, t) == Put(T, g, Put(Get(T, g), n, t))
AllKeys(T) == {<<g, n>> \in KeySet(T) \X UNION {KeySet(T[i].v) : i \in 1..Len(T)} :
                 HasTimer(T, g, n)}

----------------------------------------------------------------------------
(* calculate_next_due *)

ValidUnits == {"days", "weeks", "months"}

Lower(s) ==
    CASE s = "Days" -> "days"
      [] s = "Weeks" -> "weeks"
      [] s = "Months" -> "months"
      [] OTHER -> s

StartOfDay(t) == (t \div DayLen) * DayLen

Timedelta(days) == days * DayLen

(* Mutant: a month counted as 31 days *)
calculate_next_due_months_31(interval_value, interval_unit, start_time) ==
    LET start == StartOfDay(start_time)
        unit == Lower(interval_unit)
        delta == CASE unit = "days" -> Timedelta(interval_value)
                   [] unit = "weeks" -> Timedelta(7 * interval_value)
                   [] unit = "months" -> Timedelta(interval_value * 31)
                   [] OTHER -> 0
    IN  IF unit \notin ValidUnits
        THEN [raised |-> TRUE, value |-> None]
        ELSE IF start + delta > DatetimeMax
        THEN [raised |-> TRUE, value |-> None]
        ELSE [raised |-> FALSE,
              value |-> IF delta # 0 THEN Some(start + delta) ELSE None]

(* Mutant: the interval counted with the day of the start time as its      *)
(* first day                                                               *)
calculate_next_due_inclusive(interval_value, interval_unit, start_time) ==
    LET start == StartOfDay(start_time)
        unit == Lower(interval_unit)
        delta == CASE unit = "days" -> Timedelta(interval_value - 1)
                   [] unit = "weeks" -> Timedelta(7 * interval_value - 1)
                   [] unit = "months" -> Timedelta(interval_value * 30 - 1)
                   [] OTHER -> 0
    IN  IF unit \notin ValidUnits
        THEN [raised |-> TRUE, value |-> None]
        ELSE IF start + delta > DatetimeMax
        THEN [raised |-> TRUE, value |-> None]
        ELSE [raised |-> FALSE,
              value |-> IF delta # 0 THEN Some(start + delta) ELSE None]

(* Mutant: the interval is counted from the start time as given, without   *)
(* the normalisation to the start of its day                               *)
calculate_next_due_from_instant(interval_value, interval_unit, start_time) ==
    LET unit == Lower(interval_unit)
        delta == CASE unit = "days" -> Timedelta(interval_value)
                   [] unit = "weeks" -> Timedelta(7 * interval_value)
                   [] unit = "months" -> Timedelta(interval_value * 30)
                   [] OTHER -> 0
    IN  IF unit \notin ValidUnits
        THEN [raised |-> TRUE, value |-> None]
        ELSE IF start_time + delta > DatetimeMax
        THEN [raised |-> TRUE, value |-> None]
        ELSE [raised |-> FALSE,
              value |-> IF delta # 0 THEN Some(start_time + delta) ELSE None]

(* The result is [raised |-> TRUE] when the call raises (ValueError for an  *)
(* invalid unit, OverflowError when the sum is past datetime.max), else    *)
(* [raised |-> FALSE, value |-> None or Some(timestamp)].                  *)
calculate_next_due(interval_value, interval_unit, start_time) ==
    LET start == StartOfDay(start_time)
        unit == Lower(interval_unit)
        delta == CASE unit = "days" -> Timedelta(interval_value)
                   [] unit = "weeks" -> Timedelta(7 * interval_value)
                   [] unit = "months" -> Timedelta(interval_value * 30)
                   [] OTHER -> 0
    IN  IF unit \notin ValidUnits
        THEN [raised |-> TRUE, value |-> None]
        ELSE IF start + delta > DatetimeMax
        THEN [raised |-> TRUE, value |-> None]
        ELSE [raised |-> FALSE,
              value |-> IF delta # 0 THEN Some(start + delta) ELSE None]

----------------------------------------------------------------------------
(* Persistence: save_data / load_data *)

(* Mutant: the date alone, as date.isoformat() writes it *)
isoformat_date_only(t) == [date |-> t \div DayLen, time |-> 0]

(* datetime.isoformat(): the text "<date>T<time>", here its two parts.     *)
isoformat(t) == [date |-> t \div DayLen, time |-> t % DayLen]

(* datetime.fromisoformat(): ValueError unless the text is a date and a    *)
(* time of day.                                                            *)
IsoWellFormed(s) == s.date >= 0 /\ s.time \in 0..(DayLen - 1)
fromisoformat(s) == s.date * DayLen + s.time

(* str(guild_id) and int(guild_id_str); a text with digits |-> FALSE makes *)
(* int() raise ValueError.                                                 *)
str(g) == [digits |-> TRUE, v |-> g]
IntWellFormed(s) == s.digits
int(s) == s.v

SerializeTimer(data) ==
    [data EXCEPT
       !.next_due = IF data.next_due # None
                    THEN Some(isoformat(Val(data.next_due))) ELSE None,
       !.last_reminded = IF data.last_reminded # None
                         THEN Some(isoformat(Val(data.last_reminded))) ELSE None]

Serialize(T, S) ==
    [global_settings |-> S,
     timers |-> [i \in 1..Len(T) |->
                   [k |-> str(T[i].k),
                    v |-> [j \in 1..Len(T[i].v) |->
                             [k |-> T[i].v[j].k,
                              v |-> SerializeTimer(T[i].v[j].v)]]]]]

NoFile == [exists |-> FALSE, whole |-> TRUE, doc |-> Serialize(EmptyDict, [reminder_repeat_days |-> 0])]

(* save_data(): `io` is the outcome of writing DATA_FILE.  "ok": the       *)
(* document is written.  "open_fails": open() raises IOError, the file is  *)
(* left as it was.  "write_fails": open(.., 'w') has truncated the file    *)
(* and json.dump stops part way.  The exception is caught and logged.      *)
save_data(T, S, old, io) ==
    CASE io = "ok" -> [exists |-> TRUE, whole |-> TRUE, doc |-> Serialize(T, S)]
      [] io = "open_fails" -> old
      [] OTHER -> [exists |-> TRUE, whole |-> FALSE, doc |-> NoFile.doc]

DeserializeTimer(data) ==
    [data EXCEPT
       !.next_due = IF data.next_due # None /\ IsoWellFormed(Val(data.next_due))
                    THEN Some(fromisoformat(Val(data.next_due))) ELSE None,
       !.last_reminded = IF data.last_reminded # None /\ IsoWellFormed(Val(data.last_reminded))
                         THEN Some(fromisoformat(Val(data.last_reminded))) ELSE None]

(* load_data(): the registry and settings after on_ready, given the file   *)
(* and the settings built from the environment.                            *)
load_data(f, S) ==
    IF ~f.exists
    THEN [timers |-> EmptyDict, global_settings |-> S]
    ELSE IF ~f.whole
    THEN [timers |-> EmptyDict, global_settings |-> S]
    ELSE LET good == SelectSeq(f.doc.timers, LAMBDA e : IntWellFormed(e.k))
         IN  [timers |-> [i \in 1..Len(good) |->
                            [k |-> int(good[i].k),
                             v |-> [j \in 1..Len(good[i].v) |->
                                      [k |-> good[i].v[j].k,
                                       v |-> DeserializeTimer(good[i].v[j].v)]]]],
              global_settings |-> f.doc.global_settings]

(* REMINDER_REPEAT_DAYS_DEFAULT_ENV from the environment value *)
REMINDER_REPEAT_DAYS_DEFAULT_ENV(env) ==
    IF env <= 0 THEN DEFAULT_REMINDER_DAYS ELSE env

----------------------------------------------------------------------------
(* Observation of the running tick.  sent: the channel.send calls that     *)
(* returned or raised, in order.  visited: the keys of the snapshot the    *)
(* loop has reached, with what it did.  start: the keys present when the   *)
(* tick started.  deleted / changed: keys a command has deleted, or        *)
(* created, edited or marked done, since the tick started.  interleaved:   *)
(* the number of command and environment steps taken since the tick        *)
(* started, which the model caps at MaxInterleave.  prev: the timers the   *)
(* previous tick could not notify (channel not resolved, or send raised),  *)
(* as seen then, less those a command has acted on since.                  *)

(* reply: the last response a command handler sent with                    *)
(* interaction.response.send_message, recorded when reply.on is set.       *)
(* reply.listed: the timers the embed of the last list_timers_cmd showed,  *)
(* in its order, recorded when reply.full is set.                          *)
(* cap: the cap on interleaved of the specification at hand.  call: the    *)
(* last call of calculate_next_due made on its own, with its result.       *)
(* loads: the number of times the process has been started again.         *)
NoReply ==
    [on |-> FALSE, full |-> FALSE, cmd |-> "", g |-> 0, n |-> "", text |-> "",
     listed |-> <<>>]

(* cycle: recorded when cycle.on is set.  once: the timers that have got a *)
(* "now due" notification since they were created or last marked done;     *)
(* twice: those that have got more than one.                               *)
NoCycle == [on |-> FALSE, once |-> {}, twice |-> {}]

NoObs ==
    [sent |-> <<>>, visited |-> <<>>, start |-> {}, deleted |-> {}, changed |-> {},
     interleaved |-> 0, cap |-> MaxInterleave, prev |-> {}, reply |-> NoReply,
     call |-> None, loads |-> 0, cycle |-> NoCycle]

Reply(o, cmd, g, n, text) ==
    IF o.reply.on
    THEN [o EXCEPT !.reply = [on |-> TRUE, full |-> o.reply.full, cmd |-> cmd,
                              g |-> g, n |-> n, text |-> text, listed |-> <<>>]]
    ELSE o

Running == tick.pc \notin {"idle", "crashed"}

ObsStep ==
    IF Running THEN [obs EXCEPT !.interleaved = @ + 1] ELSE obs
ObsForget(g, n) == [obs EXCEPT !.prev = {p \in @ : <<p.g, p.n>> # <<g, n>>}]
ObsDeleted(g, n) ==
    IF Running THEN [ObsStep EXCEPT !.deleted = @ \cup {<<g, n>>}] ELSE ObsForget(g, n)
ObsChanged(g, n) ==
    IF Running THEN [ObsStep EXCEPT !.changed = @ \cup {<<g, n>>}] ELSE ObsForget(g, n)
(* create_timer or done_timer has been carried out: a new cycle of the timer *)
ObsCycleStart(g, n) ==
    [ObsChanged(g, n) EXCEPT !.cycle = IF @.on
                                       THEN [@ EXCEPT !.once = @ \ {<<g, n>>},
                                                      !.twice = @ \ {<<g, n>>}]
                                       ELSE @]

(* A command handler or a clock step runs only when the event loop is free *)
LoopFree ==
    /\ tick.pc \in {"idle", "await_send", "crashed"}
    /\ Running => obs.interleaved < obs.cap

NumTimers(T) == Cardinality(AllKeys(T))

----------------------------------------------------------------------------
(* Slash commands *)

(* Mutant: /create without the check for an existing name *)
create_timer_overwrites(guild_id, channel_id, name, interval_value, interval_unit, owner, description, io) ==
    /\ LoopFree
    /\ channel_id \in channels
    /\ HasTimer(timers, guild_id, name) \/ NumTimers(timers) < MaxTimers
    /\ IF interval_value <= 0
       THEN /\ UNCHANGED <<timers, file>>
            /\ obs' = Reply(obs, "create", guild_id, name, "not_positive")
       ELSE IF Lower(interval_unit) \notin ValidUnits
       THEN /\ UNCHANGED <<timers, file>>
            /\ obs' = Reply(obs, "create", guild_id, name, "invalid_unit")
       ELSE LET r == calculate_next_due(interval_value, interval_unit, clock)
                T0 == IF HasGuild(timers, guild_id) THEN timers
                      ELSE Put(timers, guild_id, EmptyDict)
                new_timer == [name |-> name,
                              interval_value |-> interval_value,
                              interval_unit |-> Lower(interval_unit),
                              description |-> description,
                              owner |-> owner,
                              channel_id |-> channel_id,
                              next_due |-> r.value,
                              is_pending |-> FALSE,
                              last_reminded |-> None]
            IN  /\ timers' = SetTimer(T0, guild_id, name, new_timer)
                /\ file' = save_data(timers', global_settings, file, io)
                /\ obs' = Reply(ObsCycleStart(guild_id, name),
                                "create", guild_id, name, "created")
    /\ UNCHANGED <<global_settings, clock, channels, tick>>

create_timer(guild_id, channel_id, name, interval_value, interval_unit, owner, description, io) ==
    /\ LoopFree
    /\ channel_id \in channels
    /\ HasTimer(timers, guild_id, name) \/ NumTimers(timers) < MaxTimers
    /\ IF interval_value <= 0
       THEN /\ UNCHANGED <<timers, file>>
            /\ obs' = Reply(obs, "create", guild_id, name, "not_positive")
       ELSE IF Lower(interval_unit) \notin ValidUnits
       THEN /\ UNCHANGED <<timers, file>>
            /\ obs' = Reply(obs, "create", guild_id, name, "invalid_unit")
       ELSE IF HasTimer(timers, guild_id, name)
       THEN /\ UNCHANGED <<timers, file>>
            /\ obs' = Reply(obs, "create", guild_id, name, "already_exists")
       ELSE LET r == calculate_next_due(interval_value, interval_unit, clock)
                T0 == IF HasGuild(timers, guild_id) THEN timers
                      ELSE Put(timers, guild_id, EmptyDict)
                new_timer == [name |-> name,
                              interval_value |-> interval_value,
                              interval_unit |-> Lower(interval_unit),
                              description |-> description,
                              owner |-> owner,
                              channel_id |-> channel_id,
                              next_due |-> r.value,
                              is_pending |-> FALSE,
                              last_reminded |-> None]
            IN  IF r.raised \/ r.value = None
                THEN /\ timers' = T0
                     /\ file' = file
                     /\ obs' = Reply(IF T0 # timers THEN ObsStep ELSE obs,
                                     "create", guild_id, name, "error")
                ELSE /\ timers' = SetTimer(T0, guild_id, name, new_timer)
                     /\ file' = save_data(timers', global_settings, file, io)
                     /\ obs' = Reply(ObsCycleStart(guild_id, name),
                                     "create", guild_id, name, "created")
    /\ UNCHANGED <<global_settings, clock, channels, tick>>

(* Mutant: /done that counts the next cycle from the old due date *)
done_timer_from_old_due(guild_id, name, io) ==
    /\ LoopFree
    /\ IF ~HasTimer(timers, guild_id, name)
       THEN /\ UNCHANGED <<timers, file>>
            /\ obs' = Reply(obs, "done", guild_id, name, "not_found")
       ELSE LET timer_data == Timer(timers, guild_id, name)
                r == calculate_next_due(timer_data.interval_value,
                                        timer_data.interval_unit,
                                        IF timer_data.next_due # None
                                        THEN Val(timer_data.next_due) ELSE clock)
            IN  IF ~timer_data.is_pending
                THEN /\ UNCHANGED <<timers, file>>
                     /\ obs' = Reply(obs, "done", guild_id, name, "not_pending")
                ELSE IF r.raised \/ r.value = None
                THEN /\ UNCHANGED <<timers, file>>
                     /\ obs' = Reply(obs, "done", guild_id, name, "error")
                ELSE /\ timers' = SetTimer(timers, guild_id, name,
                                     [timer_data EXCEPT !.is_pending = FALSE,
                                                        !.last_reminded = None,
                                                        !.next_due = r.value])
                     /\ file' = save_data(timers', global_settings, file, io)
                     /\ obs' = Reply(ObsCycleStart(guild_id, name),
                                     "done", guild_id, name, "done")
    /\ UNCHANGED <<global_settings, clock, channels, tick>>

(* Mutant: /done that restarts the cycle of a timer that is not pending *)
done_timer_any_state(guild_id, name, io) ==
    /\ LoopFree
    /\ IF ~HasTimer(timers, guild_id, name)
       THEN /\ UNCHANGED <<timers, file>>
            /\ obs' = Reply(obs, "done", guild_id, name, "not_found")
       ELSE LET timer_data == Timer(timers, guild_id, name)
                r == calculate_next_due(timer_data.interval_value,
                                        timer_data.interval_unit, clock)
            IN  IF r.raised \/ r.value = None
                THEN /\ UNCHANGED <<timers, file>>
                     /\ obs' = Reply(obs, "done", guild_id, name, "error")
                ELSE /\ timers' = SetTimer(timers, guild_id, name,
                                     [timer_data EXCEPT !.is_pending = FALSE,
                                                        !.last_reminded = None,
                                                        !.next_due = r.value])
                     /\ file' = save_data(timers', global_settings, file, io)
                     /\ obs' = Reply(ObsCycleStart(guild_id, name), "done", guild_id, name,
                                     IF timer_data.is_pending THEN "done" ELSE "not_pending")
    /\ UNCHANGED <<global_settings, clock, channels, tick>>

done_timer(guild_id, name, io) ==
    /\ LoopFree
    /\ IF ~HasTimer(timers, guild_id, name)
       THEN /\ UNCHANGED <<timers, file>>
            /\ obs' = Reply(obs, "done", guild_id, name, "not_found")
       ELSE LET timer_data == Timer(timers, guild_id, name)
                r == calculate_next_due(timer_data.interval_value,
                                        timer_data.interval_unit, clock)
            IN  IF ~timer_data.is_pending
                THEN /\ UNCHANGED <<timers, file>>
                     /\ obs' = Reply(obs, "done", guild_id, name, "not_pending")
                ELSE IF r.raised \/ r.value = None
                THEN /\ UNCHANGED <<timers, file>>
                     /\ obs' = Reply(obs, "done", guild_id, name, "error")
                ELSE /\ timers' = SetTimer(timers, guild_id, name,
                                     [timer_data EXCEPT !.is_pending = FALSE,
                                                        !.last_reminded = None,
                                                        !.next_due = r.value])
                     /\ file' = save_data(timers', global_settings, file, io)
                     /\ obs' = Reply(ObsCycleStart(guild_id, name),
                                     "done", guild_id, name, "done")
    /\ UNCHANGED <<global_settings, clock, channels, tick>>

(* Mutant: /delete that leaves the emptied guild entry in the registry *)
delete_timer_keeps_guild(guild_id, name, manage_guild, io) ==
    /\ LoopFree
    /\ IF ~manage_guild
       THEN /\ UNCHANGED <<timers, file>>
            /\ obs' = Reply(obs, "delete", guild_id, name, "no_permission")
       ELSE IF ~HasTimer(timers, guild_id, name)
       THEN /\ UNCHANGED <<timers, file>>
            /\ obs' = Reply(obs, "delete", guild_id, name, "not_found")
       ELSE LET rest == DelKey(Get(timers, guild_id), name)
            IN  /\ timers' = Put(timers, guild_id, rest)
                /\ file' = save_data(timers', global_settings, file, io)
                /\ obs' = Reply(ObsDeleted(guild_id, name),
                                "delete", guild_id, name, "deleted")
    /\ UNCHANGED <<global_settings, clock, channels, tick>>

delete_timer(guild_id, name, manage_guild, io) ==
    /\ LoopFree
    /\ IF ~manage_guild
       THEN /\ UNCHANGED <<timers, file>>
            /\ obs' = Reply(obs, "delete", guild_id, name, "no_permission")
       ELSE IF ~HasTimer(timers, guild_id, name)
       THEN /\ UNCHANGED <<timers, file>>
            /\ obs' = Reply(obs, "delete", guild_id, name, "not_found")
       ELSE LET rest == DelKey(Get(timers, guild_id), name)
            IN  /\ timers' = IF rest = EmptyDict
                             THEN DelKey(timers, guild_id)
                             ELSE Put(timers, guild_id, rest)
                /\ file' = save_data(timers', global_settings, file, io)
                /\ obs' = Reply(ObsDeleted(guild_id, name),
                                "delete", guild_id, name, "deleted")
    /\ UNCHANGED <<global_settings, clock, channels, tick>>

(* Mutant: the settings are written before the new interval is assigned *)
set_reminder_interval_saves_first(days, manage_guild, io) ==
    /\ LoopFree
    /\ IF ~manage_guild \/ days <= 0
       THEN UNCHANGED <<global_settings, file>>
       ELSE /\ global_settings' = [global_settings EXCEPT !.reminder_repeat_days = days]
            /\ file' = save_data(timers, global_settings, file, io)
    /\ obs' = Reply(IF global_settings' # global_settings THEN ObsStep ELSE obs,
                    "set_reminder_interval", 0, "",
                    IF ~manage_guild THEN "no_permission"
                    ELSE IF days <= 0 THEN "not_positive" ELSE "set")
    /\ UNCHANGED <<timers, clock, channels, tick>>

set_reminder_interval(days, manage_guild, io) ==
    /\ LoopFree
    /\ IF ~manage_guild \/ days <= 0
       THEN UNCHANGED <<global_settings, file>>
       ELSE /\ global_settings' = [global_settings EXCEPT !.reminder_repeat_days = days]
            /\ file' = save_data(timers, global_settings', file, io)
    /\ obs' = Reply(IF global_settings' # global_settings THEN ObsStep ELSE obs,
                    "set_reminder_interval", 0, "",
                    IF ~manage_guild THEN "no_permission"
                    ELSE IF days <= 0 THEN "not_positive" ELSE "set")
    /\ UNCHANGED <<timers, clock, channels, tick>>

(* `sorted(timers[guild_id].values(), key=lambda t: t.get('next_due') or    *)
(* datetime.max)`: the timers of a guild by next_due, those without one    *)
(* last, timers of equal next_due in the order of the dict                 *)
sorted_timers(d) ==
    LET key(i) == IF d[i].v.next_due # None THEN Val(d[i].v.next_due) ELSE DatetimeMax
        rank(i) == 1 + Cardinality({j \in 1..Len(d) :
                                      \/ key(j) < key(i)
                                      \/ key(j) = key(i) /\ j < i})
    IN  [p \in 1..Len(d) |-> d[CHOOSE i \in 1..Len(d) : rank(i) = p].v]

(* The concatenation of the values of a dict of sequences *)
RECURSIVE AllValues(_)
AllValues(T) == IF T = <<>> THEN <<>> ELSE T[1].v \o AllValues(Tail(T))

ReplyListed(o, guild_id, listed) ==
    LET r == Reply(o, "list", guild_id, "",
                   IF listed = <<>> THEN "no_timers" ELSE "listed")
    IN  IF o.reply.full THEN [r EXCEPT !.reply.listed = listed] ELSE r

(* Mutant: the list shows the timers of every guild *)
list_timers_cmd_all_guilds(guild_id) ==
    /\ LoopFree
    /\ obs' = ReplyListed(obs, guild_id,
                          IF ~Has(timers, guild_id) \/ Get(timers, guild_id) = EmptyDict
                          THEN <<>> ELSE sorted_timers(AllValues(timers)))
    /\ UNCHANGED <<timers, global_settings, file, clock, channels, tick>>

(* list_timers_cmd: reads the registry and answers with "no timers" or     *)
(* with an embed of one field per timer of the guild                       *)
list_timers_cmd(guild_id) ==
    /\ LoopFree
    /\ obs' = ReplyListed(obs, guild_id,
                          IF ~Has(timers, guild_id) \/ Get(timers, guild_id) = EmptyDict
                          THEN <<>> ELSE sorted_timers(Get(timers, guild_id)))
    /\ UNCHANGED <<timers, global_settings, file, clock, channels, tick>>

(* Mutant: an interval edit recomputes next_due also for a pending timer *)
EditEffectAlwaysRecomputes(timer_data, interval_value, interval_unit, owner, description, now) ==
    LET t1 == IF interval_value # None
              THEN [timer_data EXCEPT !.interval_value = Val(interval_value)]
              ELSE timer_data
        t2 == IF interval_unit # None
              THEN [t1 EXCEPT !.interval_unit = Lower(Val(interval_unit))]
              ELSE t1
        t3 == IF owner # None THEN [t2 EXCEPT !.owner = Val(owner)] ELSE t2
        t4 == IF description # None
              THEN [t3 EXCEPT !.description = Val(description)] ELSE t3
        changes_made == interval_value # None \/ interval_unit # None
                        \/ owner # None \/ description # None
        r == calculate_next_due(t4.interval_value, t4.interval_unit, now)
        done == IF changes_made THEN "updated" ELSE "no_changes"
    IN  IF interval_value # None /\ Val(interval_value) <= 0
        THEN [timer |-> timer_data, save |-> FALSE, reply |-> "not_positive"]
        ELSE IF interval_unit # None /\ Lower(Val(interval_unit)) \notin ValidUnits
        THEN [timer |-> t1, save |-> FALSE, reply |-> "invalid_unit"]
        ELSE IF interval_value # None \/ interval_unit # None
        THEN IF r.raised \/ r.value = None
             THEN [timer |-> t4, save |-> FALSE, reply |-> "error"]
             ELSE [timer |-> [t4 EXCEPT !.next_due = r.value], save |-> changes_made,
                   reply |-> done]
        ELSE [timer |-> t4, save |-> changes_made, reply |-> done]

(* edit_timer: the handler's effect on the timer dict it edits in place.   *)
(* Each argument is None or Some(value).  The result is the timer, whether *)
(* save_data() is reached, and the response.                               *)
EditEffect(timer_data, interval_value, interval_unit, owner, description, now) ==
    LET t1 == IF interval_value # None
              THEN [timer_data EXCEPT !.interval_value = Val(interval_value)]
              ELSE timer_data
        t2 == IF interval_unit # None
              THEN [t1 EXCEPT !.interval_unit = Lower(Val(interval_unit))]
              ELSE t1
        t3 == IF owner # None THEN [t2 EXCEPT !.owner = Val(owner)] ELSE t2
        t4 == IF description # None
              THEN [t3 EXCEPT !.description = Val(description)] ELSE t3
        changes_made == interval_value # None \/ interval_unit # None
                        \/ owner # None \/ description # None
        r == calculate_next_due(t4.interval_value, t4.interval_unit, now)
        done == IF changes_made THEN "updated" ELSE "no_changes"
    IN  IF interval_value # None /\ Val(interval_value) <= 0
        THEN [timer |-> timer_data, save |-> FALSE, reply |-> "not_positive"]
        ELSE IF interval_unit # None /\ Lower(Val(interval_unit)) \notin ValidUnits
        THEN [timer |-> t1, save |-> FALSE, reply |-> "invalid_unit"]
        ELSE IF (interval_value # None \/ interval_unit # None) /\ ~t4.is_pending
        THEN IF r.raised \/ r.value = None
             THEN [timer |-> t4, save |-> FALSE, reply |-> "error"]
             ELSE [timer |-> [t4 EXCEPT !.next_due = r.value], save |-> changes_made,
                   reply |-> done]
        ELSE [timer |-> t4, save |-> changes_made, reply |-> done]

(* Mutant: an edit that also takes the timer out of pending *)
edit_timer_clears_pending(guild_id, name, interval_value, interval_unit, owner, description, io) ==
    /\ LoopFree
    /\ IF ~HasTimer(timers, guild_id, name)
       THEN /\ UNCHANGED <<timers, file>>
            /\ obs' = Reply(obs, "edit", guild_id, name, "not_found")
       ELSE LET e == EditEffect(Timer(timers, guild_id, name), interval_value,
                                interval_unit, owner, description, clock)
            IN  /\ timers' = SetTimer(timers, guild_id, name,
                                      [e.timer EXCEPT !.is_pending = FALSE])
                /\ file' = IF e.save
                           THEN save_data(timers', global_settings, file, io)
                           ELSE file
                /\ obs' = Reply(ObsChanged(guild_id, name),
                                "edit", guild_id, name, e.reply)
    /\ UNCHANGED <<global_settings, clock, channels, tick>>

edit_timer(guild_id, name, interval_value, interval_unit, owner, description, io) ==
    /\ LoopFree
    /\ IF ~HasTimer(timers, guild_id, name)
       THEN /\ UNCHANGED <<timers, file>>
            /\ obs' = Reply(obs, "edit", guild_id, name, "not_found")
       ELSE LET e == EditEffect(Timer(timers, guild_id, name), interval_value,
                                interval_unit, owner, description, clock)
            IN  /\ timers' = SetTimer(timers, guild_id, name, e.timer)
                /\ file' = IF e.save
                           THEN save_data(timers', global_settings, file, io)
                           ELSE file
                /\ obs' = Reply(IF e.timer # Timer(timers, guild_id, name)
                                THEN ObsChanged(guild_id, name) ELSE obs,
                                "edit", guild_id, name, e.reply)
    /\ UNCHANGED <<global_settings, clock, channels, tick>>

----------------------------------------------------------------------------
(* check_timers_task *)

IdleTick ==
    [pc |-> "idle", now |-> 0, data_to_save |-> FALSE, reminder_interval_days |-> 0,
     guild_ids |-> <<>>, gi |-> 0, timer_names |-> <<>>, ni |-> 0, kind |-> "none"]

(* `if guild_id not in timers: continue` *)
GuildPresent(T, g) == Has(T, g)

(* Mutant: no re-check of the key before timers[guild_id][name] *)
KeyPresentAlways(T, g, n) == TRUE

(* `if guild_id not in timers or name not in timers.get(guild_id, {}): continue` *)
KeyPresent(T, g, n) == Has(T, g) /\ Has(Get(T, g), n)

(* `channel = bot.get_channel(timer_channel_id)`; `if not channel: continue` *)
ChannelResolved(timer_data) == timer_data.channel_id \in channels

(* Mutant: Check 2 left out, a pending timer is never reminded again *)
TimerCheckNoRepeat(timer_data, now, reminder_interval_days) ==
    IF ~timer_data.is_pending /\ timer_data.next_due # None
       /\ now >= Val(timer_data.next_due)
    THEN "due"
    ELSE "none"

(* Mutant: Check 1 with `now > next_due` *)
TimerCheckStrict(timer_data, now, reminder_interval_days) ==
    IF ~timer_data.is_pending /\ timer_data.next_due # None
       /\ now > Val(timer_data.next_due)
    THEN "due"
    ELSE IF timer_data.is_pending /\ timer_data.last_reminded # None
            /\ now >= Val(timer_data.last_reminded) + Timedelta(reminder_interval_days)
    THEN "repeat"
    ELSE "none"

(* Check 1 and Check 2: which notification, if any, the timer gets *)
TimerCheck(timer_data, now, reminder_interval_days) ==
    IF ~timer_data.is_pending /\ timer_data.next_due # None
       /\ now >= Val(timer_data.next_due)
    THEN "due"
    ELSE IF timer_data.is_pending /\ timer_data.last_reminded # None
            /\ now >= Val(timer_data.last_reminded) + Timedelta(reminder_interval_days)
    THEN "repeat"
    ELSE "none"

CurGuild == tick.guild_ids[tick.gi]
CurName == tick.timer_names[tick.ni]

Visit(what, seen) ==
    [obs EXCEPT !.visited = Append(@, [g |-> CurGuild, n |-> CurName,
                                       what |-> what, seen |-> seen])]

(* The keys of the running tick that were not notified for want of a       *)
(* channel or because the send raised, and that no command acted on.       *)
Failures ==
    {[g |-> v.g, n |-> v.n, kind |-> v.what, seen |-> v.seen] :
       v \in {obs.visited[i] : i \in
                 {i \in 1..Len(obs.visited) :
                    /\ <<obs.visited[i].g, obs.visited[i].n>> \notin obs.deleted \cup obs.changed
                    /\ \/ obs.visited[i].what = "no_channel"
                       \/ \E j \in 1..Len(obs.sent) :
                             /\ obs.sent[j].g = obs.visited[i].g
                             /\ obs.sent[j].n = obs.visited[i].n
                             /\ obs.sent[j].result # "ok"}}}

TickStart ==
    /\ tick.pc = "idle"
    /\ tick' = [IdleTick EXCEPT !.pc = "guilds",
                                !.now = clock,
                                !.reminder_interval_days = global_settings.reminder_repeat_days,
                                !.guild_ids = Keys(timers),
                                !.gi = 1]
    /\ obs' = [NoObs EXCEPT !.start = AllKeys(timers), !.prev = obs.prev,
                         !.reply = obs.reply, !.cap = obs.cap,
                         !.loads = obs.loads, !.cycle = obs.cycle]
    /\ UNCHANGED <<timers, global_settings, file, clock, channels>>

TickNextGuild ==
    /\ tick.pc = "guilds"
    /\ IF tick.gi > Len(tick.guild_ids)
       THEN tick' = [tick EXCEPT !.pc = "end"]
       ELSE IF ~GuildPresent(timers, CurGuild)
       THEN tick' = [tick EXCEPT !.gi = @ + 1]
       ELSE tick' = [tick EXCEPT !.pc = "names",
                                 !.timer_names = IF Has(timers, CurGuild)
                                                 THEN Keys(Get(timers, CurGuild))
                                                 ELSE <<>>,
                                 !.ni = 1]
    /\ obs' = IF tick.gi <= Len(tick.guild_ids) /\ ~GuildPresent(timers, CurGuild)
              THEN [obs EXCEPT !.visited = Append(@, [g |-> CurGuild, n |-> "",
                                                      what |-> "guild_absent",
                                                      seen |-> None])]
              ELSE obs
    /\ UNCHANGED <<timers, global_settings, file, clock, channels>>

(* Mutant: a timer whose channel does not resolve is dropped from the     *)
(* registry                                                                *)
TickVisitDropsOrphan ==
    /\ tick.pc = "names"
    /\ IF tick.ni > Len(tick.timer_names)
       THEN /\ tick' = [tick EXCEPT !.pc = "guilds", !.gi = @ + 1,
                                    !.timer_names = <<>>, !.ni = 0]
            /\ obs' = obs
            /\ timers' = timers
       ELSE IF ~KeyPresent(timers, CurGuild, CurName)
       THEN /\ tick' = [tick EXCEPT !.ni = @ + 1]
            /\ obs' = Visit("absent", None)
            /\ timers' = timers
       ELSE LET timer_data == Timer(timers, CurGuild, CurName)
                check == TimerCheck(timer_data, tick.now, tick.reminder_interval_days)
                rest == DelKey(Get(timers, CurGuild), CurName)
            IN  IF ~ChannelResolved(timer_data)
                THEN /\ tick' = [tick EXCEPT !.ni = @ + 1]
                     /\ obs' = Visit("no_channel", Some(timer_data))
                     /\ timers' = Put(timers, CurGuild, rest)
                ELSE IF check = "none"
                THEN /\ tick' = [tick EXCEPT !.ni = @ + 1]
                     /\ obs' = Visit("none", Some(timer_data))
                     /\ timers' = timers
                ELSE /\ tick' = [tick EXCEPT !.pc = "await_send", !.kind = check]
                     /\ obs' = Visit(check, Some(timer_data))
                     /\ timers' = timers
    /\ UNCHANGED <<global_settings, file, clock, channels>>

TickVisit ==
    /\ tick.pc = "names"
    /\ IF tick.ni > Len(tick.timer_names)
       THEN /\ tick' = [tick EXCEPT !.pc = "guilds", !.gi = @ + 1,
                                    !.timer_names = <<>>, !.ni = 0]
            /\ obs' = obs
       ELSE IF ~KeyPresent(timers, CurGuild, CurName)
       THEN /\ tick' = [tick EXCEPT !.ni = @ + 1]
            /\ obs' = Visit("absent", None)
       ELSE IF ~HasTimer(timers, CurGuild, CurName)
       THEN /\ tick' = [tick EXCEPT !.pc = "crashed"]
            /\ obs' = Visit("KeyError", None)
       ELSE LET timer_data == Timer(timers, CurGuild, CurName)
                check == TimerCheck(timer_data, tick.now, tick.reminder_interval_days)
            IN  IF ~ChannelResolved(timer_data)
                THEN /\ tick' = [tick EXCEPT !.ni = @ + 1]
                     /\ obs' = Visit("no_channel", Some(timer_data))
                ELSE IF check = "none"
                THEN /\ tick' = [tick EXCEPT !.ni = @ + 1]
                     /\ obs' = Visit("none", Some(timer_data))
                ELSE /\ tick' = [tick EXCEPT !.pc = "await_send", !.kind = check]
                     /\ obs' = Visit(check, Some(timer_data))
    /\ UNCHANGED <<timers, global_settings, file, clock, channels>>

(* Mutant: a repeat reminder that does not record last_reminded *)
AfterSendKeepsReminded(T, g, n, kind, now) ==
    IF ~HasTimer(T, g, n)
    THEN [timers |-> T, changed |-> FALSE]
    ELSE IF kind = "due"
    THEN [timers |-> SetTimer(T, g, n, [Timer(T, g, n) EXCEPT !.is_pending = TRUE,
                                                              !.last_reminded = Some(now)]),
          changed |-> TRUE]
    ELSE [timers |-> T, changed |-> TRUE]

(* Mutant: a "now due" notification that does not mark the timer pending *)
AfterSendLeavesNotPending(T, g, n, kind, now) ==
    IF ~HasTimer(T, g, n)
    THEN [timers |-> T, changed |-> FALSE]
    ELSE IF kind = "due"
    THEN [timers |-> SetTimer(T, g, n, [Timer(T, g, n) EXCEPT !.last_reminded = Some(now)]),
          changed |-> TRUE]
    ELSE [timers |-> SetTimer(T, g, n, [Timer(T, g, n) EXCEPT !.last_reminded = Some(now)]),
          changed |-> TRUE]

(* The statements after `await channel.send(...)` returns: a missing key   *)
(* raises KeyError, which `except Exception` catches.                      *)
AfterSend(T, g, n, kind, now) ==
    IF ~HasTimer(T, g, n)
    THEN [timers |-> T, changed |-> FALSE]
    ELSE IF kind = "due"
    THEN [timers |-> SetTimer(T, g, n, [Timer(T, g, n) EXCEPT !.is_pending = TRUE,
                                                              !.last_reminded = Some(now)]),
          changed |-> TRUE]
    ELSE [timers |-> SetTimer(T, g, n, [Timer(T, g, n) EXCEPT !.last_reminded = Some(now)]),
          changed |-> TRUE]

Sent(result) ==
    [obs EXCEPT !.sent = Append(@, [g |-> CurGuild, n |-> CurName,
                                    kind |-> tick.kind, result |-> result]),
                !.cycle = IF @.on /\ result = "ok" /\ tick.kind = "due"
                          THEN IF <<CurGuild, CurName>> \in @.once
                               THEN [@ EXCEPT !.twice = @ \cup {<<CurGuild, CurName>>}]
                               ELSE [@ EXCEPT !.once = @ \cup {<<CurGuild, CurName>>}]
                          ELSE @]

TickSendOk ==
    /\ tick.pc = "await_send"
    /\ LET a == AfterSend(timers, CurGuild, CurName, tick.kind, tick.now)
       IN  /\ timers' = a.timers
           /\ tick' = [tick EXCEPT !.pc = "names", !.ni = @ + 1, !.kind = "none",
                                   !.data_to_save = @ \/ a.changed]
    /\ obs' = Sent("ok")
    /\ UNCHANGED <<global_settings, file, clock, channels>>

(* Mutant: a Forbidden send that still records the notification *)
TickSendForbiddenAdvances ==
    /\ tick.pc = "await_send"
    /\ LET a == AfterSend(timers, CurGuild, CurName, tick.kind, tick.now)
       IN  /\ timers' = a.timers
           /\ tick' = [tick EXCEPT !.pc = "names", !.ni = @ + 1, !.kind = "none",
                                   !.data_to_save = @ \/ a.changed]
    /\ obs' = Sent("Forbidden")
    /\ UNCHANGED <<global_settings, file, clock, channels>>

(* Mutant: a Forbidden send that ends the scan *)
TickSendForbiddenAborts ==
    /\ tick.pc = "await_send"
    /\ tick' = [tick EXCEPT !.pc = "end", !.kind = "none"]
    /\ obs' = Sent("Forbidden")
    /\ UNCHANGED <<timers, global_settings, file, clock, channels>>

(* `except discord.errors.Forbidden` *)
TickSendForbidden ==
    /\ tick.pc = "await_send"
    /\ tick' = [tick EXCEPT !.pc = "names", !.ni = @ + 1, !.kind = "none"]
    /\ obs' = Sent("Forbidden")
    /\ UNCHANGED <<timers, global_settings, file, clock, channels>>

(* Mutant: an unexpected error that is not caught and stops the task *)
TickSendErrorStops ==
    /\ tick.pc = "await_send"
    /\ tick' = [tick EXCEPT !.pc = "crashed", !.kind = "none"]
    /\ obs' = Sent("Exception")
    /\ UNCHANGED <<timers, global_settings, file, clock, channels>>

(* `except Exception` *)
TickSendError ==
    /\ tick.pc = "await_send"
    /\ tick' = [tick EXCEPT !.pc = "names", !.ni = @ + 1, !.kind = "none"]
    /\ obs' = Sent("Exception")
    /\ UNCHANGED <<timers, global_settings, file, clock, channels>>

(* Mutant: the tick saves at its end whether or not it changed a timer *)
TickEndAlwaysSaves(io, keep) ==
    /\ tick.pc = "end"
    /\ file' = save_data(timers, global_settings, file, io)
    /\ tick' = IdleTick
    /\ obs' = [NoObs EXCEPT !.prev = IF keep THEN Failures ELSE {},
                         !.reply = obs.reply, !.cap = obs.cap,
                         !.loads = obs.loads, !.cycle = obs.cycle]
    /\ UNCHANGED <<timers, global_settings, clock, channels>>

(* `keep` says whether the history of failed notifications is kept for    *)
(* the next tick (observation only).                                       *)
TickEnd(io, keep) ==
    /\ tick.pc = "end"
    /\ file' = IF tick.data_to_save
               THEN save_data(timers, global_settings, file, io) ELSE file
    /\ tick' = IdleTick
    /\ obs' = [NoObs EXCEPT !.prev = IF keep THEN Failures ELSE {},
                         !.reply = obs.reply, !.cap = obs.cap,
                         !.loads = obs.loads, !.cycle = obs.cycle]
    /\ UNCHANGED <<timers, global_settings, clock, channels>>

----------------------------------------------------------------------------
(* Environment *)

Advance ==
    /\ LoopFree
    /\ clock < MaxTime
    /\ clock' = clock + 1
    /\ obs' = ObsStep
    /\ UNCHANGED <<timers, global_settings, file, channels, tick>>

ChannelGone(c) ==
    /\ LoopFree
    /\ c \in channels
    /\ channels' = channels \ {c}
    /\ obs' = ObsStep
    /\ UNCHANGED <<timers, global_settings, file, clock, tick>>

ChannelBack(c) ==
    /\ LoopFree
    /\ c \notin channels
    /\ channels' = channels \cup {c}
    /\ obs' = ObsStep
    /\ UNCHANGED <<timers, global_settings, file, clock, tick>>

----------------------------------------------------------------------------
(* Inputs *)

Guilds == {1, 2}
Names == {"a", "b"}
(* The (guild, name) pairs the commands are issued for *)
CmdKeys == {<<1, "a">>, <<1, "b">>, <<2, "a">>}
Channels == {1, 2}
(* The channels of a guild: interaction.channel is a channel of interaction.guild *)
ChannelsOf(g) == {g}
FlakyChannels == {1}
EnvRepeatDays == {0, 1}

(* A document whose next_due text does not parse *)
BadDueFile ==
    [exists |-> TRUE, whole |-> TRUE,
     doc |-> [global_settings |-> [reminder_repeat_days |-> 1],
              timers |-> <<[k |-> str(1),
                            v |-> <<[k |-> "a",
                                     v |-> [name |-> "a", interval_value |-> 1,
                                            interval_unit |-> "days",
                                            description |-> "d1", owner |-> "o1",
                                            channel_id |-> 1,
                                            next_due |-> Some([date |-> 1, time |-> DayLen]),
                                            is_pending |-> FALSE,
                                            last_reminded |-> None]]>>]>>]]

InitFiles == {NoFile, BadDueFile}

InitObs(o, envs, files) ==
    \E env \in envs, f \in files :
       LET l == load_data(f, [reminder_repeat_days |-> REMINDER_REPEAT_DAYS_DEFAULT_ENV(env)])
       IN  /\ timers = l.timers
           /\ global_settings = l.global_settings
           /\ file = f
           /\ clock = 0
           /\ channels = Channels
           /\ tick = IdleTick
           /\ obs = o

Init == InitObs(NoObs, EnvRepeatDays, InitFiles)

Create ==
    \E k \in CmdKeys, iv \in {0, 1} : \E c \in ChannelsOf(k[1]) :
       create_timer(k[1], c, k[2], iv, "days", "o1", "d1", "ok")

Done == \E k \in CmdKeys : done_timer(k[1], k[2], "ok")

Delete == \E k \in CmdKeys : delete_timer(k[1], k[2], TRUE, "ok")

Edit ==
    \E k \in CmdKeys :
       edit_timer(k[1], k[2], Some(2), None, None, None, "ok")

SetInterval == \E days \in 0..MaxRepeatDays : set_reminder_interval(days, TRUE, "ok")

ChannelChange == \E c \in FlakyChannels : ChannelGone(c) \/ ChannelBack(c)

Next ==
    \/ TickStart
    \/ TickNextGuild
    \/ TickVisit
    \/ TickSendOk
    \/ TickSendForbidden
    \/ TickSendError
    \/ TickEnd("ok", FALSE)
    \/ Create
    \/ Done
    \/ Delete
    \/ Edit
    \/ SetInterval
    \/ ChannelChange
    \/ Advance

Spec == Init /\ [][Next]_vars

----------------------------------------------------------------------------
(* Properties of the due-check tick.  They are stated at tick.pc = "end",  *)
(* where the loop over the snapshot is over and nothing but the save is    *)
(* left, from what the tick saw of each timer (obs.visited[i].seen) and    *)
(* what came of its sends (obs.sent).                                      *)

SentIdx(g, n) == {j \in 1..Len(obs.sent) : obs.sent[j].g = g /\ obs.sent[j].n = n}
VisitIdx(g, n) == {i \in 1..Len(obs.visited) : obs.visited[i].g = g /\ obs.visited[i].n = n}
Untouched(g, n) == <<g, n>> \notin obs.deleted \cup obs.changed
TheSent(g, n) == obs.sent[CHOOSE j \in SentIdx(g, n) : TRUE]

IsDue(t, now) == ~t.is_pending /\ t.next_due # None /\ now >= Val(t.next_due)
IsRepeatDue(t, now, days) ==
    t.is_pending /\ t.last_reminded # None /\ now >= Val(t.last_reminded) + days * DayLen

(* C1: in a tick, a timer seen with is_pending = false, next_due set and    *)
(* now >= next_due, whose channel resolves, gets exactly one send, a "now   *)
(* due" one, and when that send succeeds the timer ends the tick as it was  *)
(* seen but with is_pending = true and last_reminded = the tick's now; a    *)
(* timer seen with is_pending = false and next_due absent or later than now *)
(* gets no send and ends the tick as it was seen.  (Timers on which no      *)
(* command acted while the tick ran.)                                       *)
C1_DueTransition ==
    tick.pc = "end" =>
      \A i \in 1..Len(obs.visited) :
         LET v == obs.visited[i]
         IN  (/\ v.seen # None
              /\ ~Val(v.seen).is_pending
              /\ v.what # "no_channel"
              /\ Untouched(v.g, v.n))
             => /\ HasTimer(timers, v.g, v.n)
                /\ IF Val(v.seen).next_due # None /\ tick.now >= Val(Val(v.seen).next_due)
                   THEN /\ Cardinality(SentIdx(v.g, v.n)) = 1
                        /\ TheSent(v.g, v.n).kind = "due"
                        /\ TheSent(v.g, v.n).result = "ok"
                             => Timer(timers, v.g, v.n) =
                                  [Val(v.seen) EXCEPT !.is_pending = TRUE,
                                                      !.last_reminded = Some(tick.now)]
                   ELSE /\ SentIdx(v.g, v.n) = {}
                        /\ Timer(timers, v.g, v.n) = Val(v.seen)

C1_Witness ==
    /\ tick.pc = "end"
    /\ \E i \in 1..Len(obs.visited) :
         LET v == obs.visited[i]
         IN  /\ v.seen # None
             /\ IsDue(Val(v.seen), tick.now)
             /\ Untouched(v.g, v.n)
             /\ SentIdx(v.g, v.n) # {}
             /\ TheSent(v.g, v.n).result = "ok"
             /\ Timer(timers, v.g, v.n).is_pending
             /\ Timer(timers, v.g, v.n).last_reminded = Some(tick.now)
    /\ \E i \in 1..Len(obs.visited) :
         LET v == obs.visited[i]
         IN  /\ v.seen # None
             /\ ~Val(v.seen).is_pending
             /\ ~IsDue(Val(v.seen), tick.now)
             /\ v.what = "none"

(* C2: in a tick, a timer seen pending with last_reminded set, whose        *)
(* channel resolves, gets a send, a "still pending" one, if and only if     *)
(* now >= last_reminded + reminder_repeat_days (the setting as the tick     *)
(* read it); when that send succeeds the timer ends the tick as it was seen *)
(* but with last_reminded = the tick's now (is_pending still true, next_due *)
(* unchanged), and without a send it ends the tick as it was seen.          *)
C2_RepeatReminder ==
    tick.pc = "end" =>
      \A i \in 1..Len(obs.visited) :
         LET v == obs.visited[i]
         IN  (/\ v.seen # None
              /\ Val(v.seen).is_pending
              /\ Val(v.seen).last_reminded # None
              /\ v.what # "no_channel"
              /\ Untouched(v.g, v.n))
             => /\ HasTimer(timers, v.g, v.n)
                /\ IF tick.now >= Val(Val(v.seen).last_reminded)
                                    + tick.reminder_interval_days * DayLen
                   THEN /\ Cardinality(SentIdx(v.g, v.n)) = 1
                        /\ TheSent(v.g, v.n).kind = "repeat"
                        /\ TheSent(v.g, v.n).result = "ok"
                             => /\ Timer(timers, v.g, v.n) =
                                     [Val(v.seen) EXCEPT !.last_reminded = Some(tick.now)]
                                /\ Timer(timers, v.g, v.n).is_pending
                                /\ Timer(timers, v.g, v.n).next_due = Val(v.seen).next_due
                        /\ TheSent(v.g, v.n).result # "ok"
                             => Timer(timers, v.g, v.n) = Val(v.seen)
                   ELSE /\ SentIdx(v.g, v.n) = {}
                        /\ Timer(timers, v.g, v.n) = Val(v.seen)

C2_Witness ==
    /\ tick.pc = "end"
    /\ \E i \in 1..Len(obs.visited) :
         LET v == obs.visited[i]
         IN  /\ v.seen # None
             /\ IsRepeatDue(Val(v.seen), tick.now, tick.reminder_interval_days)
             /\ Untouched(v.g, v.n)
             /\ SentIdx(v.g, v.n) # {}
             /\ TheSent(v.g, v.n).result = "ok"
             /\ Timer(timers, v.g, v.n).last_reminded = Some(tick.now)
             /\ Val(v.seen).last_reminded # Some(tick.now)

(* C3: a step takes a timer from is_pending = true to is_pending = false    *)
(* only as done_timer on that timer does: the tick does not move, the timer *)
(* gets last_reminded = None and next_due recomputed from the current time, *)
(* and every other timer is as before.  No tick step, edit, create or       *)
(* set_reminder_interval does it.                                           *)
C3_OnlyDoneLeavesPending ==
    [][\A k \in AllKeys(timers) :
         LET t == Timer(timers, k[1], k[2])
         IN  (/\ t.is_pending
              /\ HasTimer(timers', k[1], k[2])
              /\ ~Timer(timers', k[1], k[2]).is_pending)
             => /\ tick' = tick
                /\ global_settings' = global_settings
                /\ Timer(timers', k[1], k[2]) =
                     [t EXCEPT !.is_pending = FALSE,
                               !.last_reminded = None,
                               !.next_due = calculate_next_due(t.interval_value,
                                                t.interval_unit, clock).value]
                /\ timers' = SetTimer(timers, k[1], k[2], Timer(timers', k[1], k[2]))
      ]_vars

(* A timer the running tick saw pending has since been marked done *)
C3_Witness ==
    /\ tick.pc = "await_send"
    /\ \E i \in 1..Len(obs.visited) :
         LET v == obs.visited[i]
         IN  /\ v.seen # None
             /\ Val(v.seen).is_pending
             /\ <<v.g, v.n>> \in obs.changed \ obs.deleted
             /\ HasTimer(timers, v.g, v.n)
             /\ ~Timer(timers, v.g, v.n).is_pending

(* C4: every timer with is_pending = false has last_reminded absent, also   *)
(* after done_timer ran while the tick was suspended in that timer's send.  *)
C4_NotPendingNoReminder ==
    \A k \in AllKeys(timers) :
       ~Timer(timers, k[1], k[2]).is_pending
          => Timer(timers, k[1], k[2]).last_reminded = None

(* C5: when a timer's send raises Forbidden in a tick, the timer ends the   *)
(* tick exactly as the tick saw it (is_pending, last_reminded, next_due and *)
(* the rest), and the scan goes on: every timer present for the whole tick  *)
(* is evaluated.                                                            *)
C5_ForbiddenLeavesState ==
    (tick.pc = "end" /\ \E j \in 1..Len(obs.sent) : obs.sent[j].result = "Forbidden")
    => /\ \A j \in 1..Len(obs.sent) :
            (obs.sent[j].result = "Forbidden" /\ Untouched(obs.sent[j].g, obs.sent[j].n))
            => \A i \in VisitIdx(obs.sent[j].g, obs.sent[j].n) :
                  /\ HasTimer(timers, obs.sent[j].g, obs.sent[j].n)
                  /\ Some(Timer(timers, obs.sent[j].g, obs.sent[j].n)) = obs.visited[i].seen
       /\ \A k \in obs.start \ obs.deleted :
            \E i \in VisitIdx(k[1], k[2]) : obs.visited[i].seen # None

(* A Forbidden send, and a timer evaluated after it in the same tick *)
C5_Witness ==
    /\ tick.pc = "end"
    /\ \E i \in 1..Len(obs.visited) :
         /\ SentIdx(obs.visited[i].g, obs.visited[i].n) # {}
         /\ TheSent(obs.visited[i].g, obs.visited[i].n).result = "Forbidden"
         /\ Untouched(obs.visited[i].g, obs.visited[i].n)
         /\ \E i2 \in (i + 1)..Len(obs.visited) : obs.visited[i2].seen # None

(* C6: when a timer's send raises an unexpected error in a tick, the task   *)
(* does not stop: every timer present for the whole tick is evaluated, and  *)
(* each timer evaluated after the failing one that is due (channel          *)
(* resolved) gets its send and, when that succeeds, ends the tick pending.  *)
C6_ErrorDoesNotStopTick ==
    /\ (\E j \in 1..Len(obs.sent) : obs.sent[j].result = "Exception")
          => tick.pc # "crashed"
    /\ tick.pc = "end"
       => \A i \in 1..Len(obs.visited) :
            (/\ SentIdx(obs.visited[i].g, obs.visited[i].n) # {}
             /\ TheSent(obs.visited[i].g, obs.visited[i].n).result = "Exception")
            => /\ \A k \in obs.start \ obs.deleted :
                    \E i2 \in VisitIdx(k[1], k[2]) : obs.visited[i2].seen # None
               /\ \A i2 \in (i + 1)..Len(obs.visited) :
                    LET v == obs.visited[i2]
                    IN  (/\ v.seen # None
                         /\ IsDue(Val(v.seen), tick.now)
                         /\ v.what # "no_channel")
                        => /\ SentIdx(v.g, v.n) # {}
                           /\ (TheSent(v.g, v.n).result = "ok" /\ Untouched(v.g, v.n))
                                => /\ HasTimer(timers, v.g, v.n)
                                   /\ Timer(timers, v.g, v.n).is_pending

(* A send that raised, and a later timer of the same tick notified *)
C6_Witness ==
    /\ tick.pc = "end"
    /\ \E i \in 1..Len(obs.visited) :
         /\ SentIdx(obs.visited[i].g, obs.visited[i].n) # {}
         /\ TheSent(obs.visited[i].g, obs.visited[i].n).result = "Exception"
         /\ \E i2 \in (i + 1)..Len(obs.visited) :
              LET v == obs.visited[i2]
              IN  /\ v.seen # None
                  /\ IsDue(Val(v.seen), tick.now)
                  /\ SentIdx(v.g, v.n) # {}
                  /\ TheSent(v.g, v.n).result = "ok"
                  /\ Timer(timers, v.g, v.n).is_pending

(* C7: with commands creating, editing and deleting timers while the tick   *)
(* is suspended in a send, the task never stops on an error, no key is      *)
(* evaluated twice, every timer present for the whole tick is evaluated     *)
(* exactly once, and the only keys passed over as absent are keys a command *)
(* deleted during the tick.                                                 *)
C7_SnapshotIteration ==
    /\ tick.pc # "crashed"
    /\ \A i \in 1..Len(obs.visited) :
         /\ obs.visited[i].what # "KeyError"
         /\ obs.visited[i].what = "absent"
              => <<obs.visited[i].g, obs.visited[i].n>> \in obs.deleted
         /\ obs.visited[i].what = "guild_absent"
              => \E k \in obs.deleted : k[1] = obs.visited[i].g
         /\ obs.visited[i].what # "guild_absent"
              => VisitIdx(obs.visited[i].g, obs.visited[i].n) = {i}
    /\ tick.pc = "end"
       => \A k \in obs.start \ obs.deleted :
            /\ Cardinality(VisitIdx(k[1], k[2])) = 1
            /\ \A i \in VisitIdx(k[1], k[2]) : obs.visited[i].seen # None

(* A tick during which timers were created, edited and deleted, which       *)
(* passed over an absent name and an absent guild and evaluated the rest    *)
C7_Witness ==
    /\ tick.pc = "end"
    /\ obs.deleted # {}
    /\ obs.changed # {}
    /\ \E i \in 1..Len(obs.visited) : obs.visited[i].what \in {"absent", "guild_absent"}
    /\ \E k \in obs.start \ obs.deleted : VisitIdx(k[1], k[2]) # {}

----------------------------------------------------------------------------
(* The tick across consecutive runs: the same program with the history of  *)
(* the previous tick's failed notifications kept (obs.prev), for the       *)
(* commands on two timers, one of them in the channel that comes and goes. *)

RetryKeys == {<<1, "a">>, <<2, "a">>}

CreateRetry ==
    \E k \in RetryKeys : \E c \in ChannelsOf(k[1]) :
       create_timer(k[1], c, k[2], 1, "days", "o1", "d1", "ok")

DoneRetry == \E k \in RetryKeys : done_timer(k[1], k[2], "ok")

DeleteRetry == \E k \in RetryKeys : delete_timer(k[1], k[2], TRUE, "ok")

NextRetry ==
    \/ TickStart
    \/ TickNextGuild
    \/ TickVisit
    \/ TickSendOk
    \/ TickSendForbidden
    \/ TickSendError
    \/ TickEnd("ok", TRUE)
    \/ CreateRetry
    \/ DoneRetry
    \/ DeleteRetry
    \/ SetInterval
    \/ ChannelChange
    \/ Advance

SpecRetry == Init /\ [][NextRetry]_vars

(* C8: a timer whose channel does not resolve in a tick gets no send in    *)
(* that tick and ends it in the registry exactly as the tick saw it; and   *)
(* the next tick evaluates it again, in that same state (no command having *)
(* acted on it).                                                           *)
C8_NoChannelSkipsThisTickOnly ==
    tick.pc = "end" =>
      /\ \A i \in 1..Len(obs.visited) :
            LET v == obs.visited[i]
            IN  v.what = "no_channel"
                => /\ SentIdx(v.g, v.n) = {}
                   /\ Untouched(v.g, v.n)
                        => /\ HasTimer(timers, v.g, v.n)
                           /\ Some(Timer(timers, v.g, v.n)) = v.seen
      /\ \A p \in obs.prev :
            (p.kind = "no_channel" /\ Untouched(p.g, p.n))
            => /\ Cardinality(VisitIdx(p.g, p.n)) = 1
               /\ \A i \in VisitIdx(p.g, p.n) :
                     /\ obs.visited[i].what \in {"no_channel", "none", "due", "repeat"}
                     /\ obs.visited[i].seen = p.seen

(* A timer skipped for want of a channel in one tick and notified in the   *)
(* next, the channel being back                                            *)
C8_Witness ==
    /\ tick.pc = "end"
    /\ \E p \in obs.prev :
         /\ p.kind = "no_channel"
         /\ Untouched(p.g, p.n)
         /\ SentIdx(p.g, p.n) # {}
         /\ TheSent(p.g, p.n).result = "ok"
         /\ Timer(timers, p.g, p.n) # Val(p.seen)

(* C9: a timer whose notification was not sent in a tick (the send raised, *)
(* or the channel did not resolve), and on which no command has acted, is  *)
(* evaluated by the next tick in the state the failed tick saw: a due      *)
(* check that failed holds again; and when the check holds and the channel *)
(* resolves the notification of that check is sent again; when that send   *)
(* succeeds the state advances (pending and last_reminded = now for a due  *)
(* notification, last_reminded = now for a repeat), and when it fails the  *)
(* timer is again left as it was, for the tick after.                      *)
C9_FailedSendRetried ==
    tick.pc = "end" =>
      \A p \in obs.prev :
         Untouched(p.g, p.n)
         => /\ Cardinality(VisitIdx(p.g, p.n)) = 1
            /\ \A i \in VisitIdx(p.g, p.n) :
                 LET v == obs.visited[i]
                     t == Val(p.seen)
                     due == IsDue(t, tick.now)
                     repeat == IsRepeatDue(t, tick.now, tick.reminder_interval_days)
                 IN  /\ v.seen = p.seen
                     /\ p.kind = "due" => due
                     /\ p.kind = "repeat" => t.is_pending /\ t.last_reminded # None
                     /\ HasTimer(timers, p.g, p.n)
                     /\ (v.what # "no_channel" /\ (due \/ repeat))
                        => /\ Cardinality(SentIdx(p.g, p.n)) = 1
                           /\ TheSent(p.g, p.n).kind = IF due THEN "due" ELSE "repeat"
                           /\ IF TheSent(p.g, p.n).result = "ok"
                              THEN Timer(timers, p.g, p.n) =
                                     IF due
                                     THEN [t EXCEPT !.is_pending = TRUE,
                                                    !.last_reminded = Some(tick.now)]
                                     ELSE [t EXCEPT !.last_reminded = Some(tick.now)]
                              ELSE /\ Timer(timers, p.g, p.n) = t
                                   /\ \E f \in Failures : f.g = p.g /\ f.n = p.n /\ f.seen = p.seen
                     /\ (v.what = "no_channel" \/ ~(due \/ repeat))
                        => /\ SentIdx(p.g, p.n) = {}
                           /\ Timer(timers, p.g, p.n) = t

(* A send that raised in one tick and succeeded in the next *)
C9_Witness ==
    /\ tick.pc = "end"
    /\ \E p \in obs.prev :
         /\ p.kind \in {"due", "repeat"}
         /\ Untouched(p.g, p.n)
         /\ SentIdx(p.g, p.n) # {}
         /\ TheSent(p.g, p.n).result = "ok"
         /\ TheSent(p.g, p.n).kind = p.kind
         /\ Timer(timers, p.g, p.n).last_reminded = Some(tick.now)

----------------------------------------------------------------------------
(* The periodic task under fair scheduling: tasks.loop runs the tick again *)
(* every DEFAULT_CHECK_INTERVAL seconds, each step of a tick that has      *)
(* started is taken, the sends succeed, the channels stay, and time        *)
(* advances (up to MaxTime).  Timers are created, marked done and deleted. *)

LiveKeys == {<<1, "a">>, <<2, "a">>}

CreateLive ==
    \E k \in LiveKeys : \E c \in ChannelsOf(k[1]) :
       create_timer(k[1], c, k[2], 1, "days", "o1", "d1", "ok")

DoneLive == \E k \in LiveKeys : done_timer(k[1], k[2], "ok")

DeleteLive == \E k \in LiveKeys : delete_timer(k[1], k[2], TRUE, "ok")

NextLive ==
    \/ TickStart
    \/ TickNextGuild
    \/ TickVisit
    \/ TickSendOk
    \/ TickEnd("ok", FALSE)
    \/ CreateLive
    \/ DoneLive
    \/ DeleteLive
    \/ Advance

SpecLive ==
    /\ Init
    /\ [][NextLive]_vars
    /\ WF_vars(TickStart)
    /\ WF_vars(TickNextGuild)
    /\ WF_vars(TickVisit)
    /\ WF_vars(TickSendOk)
    /\ WF_vars(TickEnd("ok", FALSE))
    /\ WF_vars(Advance)

NotifiedNow(g, n, kind) ==
    /\ \E j \in 1..Len(obs.sent) :
          obs.sent[j] = [g |-> g, n |-> n, kind |-> kind, result |-> "ok"]
    /\ HasTimer(timers, g, n)
    /\ Timer(timers, g, n).is_pending
    /\ Timer(timers, g, n).last_reminded = Some(tick.now)

----------------------------------------------------------------------------
(* The tick and the persisted file *)

(* C11: a step of the tick changes the file only as the tick's last step;  *)
(* data_to_save is false when the tick starts, becomes true exactly in a   *)
(* step of the tick that changes a timer, and stays true to the end; and   *)
(* the last step writes the document of the registry when data_to_save is  *)
(* true and leaves the file as it is (also a stale one) when it is false.  *)
C11_TickSavesOnceIffChanged ==
    [][tick' # tick =>
         /\ tick.pc # "end" => file' = file
         /\ tick.pc = "idle" => ~tick'.data_to_save
         /\ tick.pc \notin {"idle", "end"} =>
              /\ tick'.data_to_save = (tick.data_to_save \/ timers' # timers)
         /\ tick.pc = "end" =>
              /\ timers' = timers
              /\ file' = IF tick.data_to_save
                         THEN [exists |-> TRUE, whole |-> TRUE,
                               doc |-> Serialize(timers, global_settings)]
                         ELSE file
      ]_vars

(* A tick that marked a timer pending is at its last step, the file not   *)
(* yet holding the change                                                  *)
C11_Witness ==
    /\ tick.pc = "end"
    /\ tick.data_to_save
    /\ file.doc # Serialize(timers, global_settings)
    /\ \E k \in AllKeys(timers) : Timer(timers, k[1], k[2]).is_pending

----------------------------------------------------------------------------
(* The command handlers *)

(* C12: done_timer on a pending timer at time t leaves the timer as it was *)
(* but with is_pending = false, last_reminded = None and next_due =        *)
(* calculate_next_due(interval_value, interval_unit, t): for a unit of     *)
(* days, the start of t's day plus interval_value days, whatever the old   *)
(* next_due was; and the file then holds the registry's document.          *)
C12_DoneRecomputesFromNow ==
    [][\A k \in CmdKeys :
         (/\ done_timer(k[1], k[2], "ok")
          /\ HasTimer(timers, k[1], k[2])
          /\ Timer(timers, k[1], k[2]).is_pending)
         => LET t == Timer(timers, k[1], k[2])
                u == Timer(timers', k[1], k[2])
            IN  /\ HasTimer(timers', k[1], k[2])
                /\ u = [t EXCEPT !.is_pending = FALSE,
                                 !.last_reminded = None,
                                 !.next_due = calculate_next_due(t.interval_value,
                                                  t.interval_unit, clock).value]
                /\ t.interval_unit = "days"
                     => u.next_due = Some((clock \div DayLen) * DayLen
                                          + t.interval_value * DayLen)
                /\ file'.doc = Serialize(timers', global_settings)
      ]_vars

(* A timer the running tick saw pending has been marked done, at a time    *)
(* from which the next due date differs from old due date plus interval    *)
C12_Witness ==
    /\ tick.pc = "await_send"
    /\ \E i \in 1..Len(obs.visited) :
         LET v == obs.visited[i]
         IN  /\ v.seen # None
             /\ Val(v.seen).is_pending
             /\ Val(v.seen).next_due # None
             /\ <<v.g, v.n>> \in obs.changed \ obs.deleted
             /\ HasTimer(timers, v.g, v.n)
             /\ ~Timer(timers, v.g, v.n).is_pending
             /\ Timer(timers, v.g, v.n).last_reminded = None
             /\ Timer(timers, v.g, v.n).next_due = Some(StartOfDay(clock)
                    + Timedelta(Timer(timers, v.g, v.n).interval_value))
             /\ Timer(timers, v.g, v.n).next_due #
                  Some(Val(Val(v.seen).next_due)
                       + Timedelta(Timer(timers, v.g, v.n).interval_value))

----------------------------------------------------------------------------
(* The command handlers with their responses recorded (obs.reply), for     *)
(* valid and invalid arguments, next to a tick whose sends succeed.        *)

MaxInterleaveCmd == 1

ReplyOn == [NoObs EXCEPT !.reply = [NoReply EXCEPT !.on = TRUE], !.cap = MaxInterleaveCmd]

InitCmd == InitObs(ReplyOn, {1}, {NoFile})

CmdIntervals == {0, 1}
CmdUnits == {"days", "hours"}
EditIntervals == {None, Some(0), Some(2)}
EditUnits == {None, Some("Weeks"), Some("hours")}
(* The timer the edits are issued for *)
EditKeys == {<<1, "a">>}
EditOwners == {None, Some("o2")}

CreateCmd ==
    \E k \in CmdKeys, iv \in CmdIntervals, u \in CmdUnits : \E c \in ChannelsOf(k[1]) :
       create_timer(k[1], c, k[2], iv, u, "o1", "d1", "ok")

DoneCmd == \E k \in CmdKeys : done_timer(k[1], k[2], "ok")

DeleteCmd == \E k \in CmdKeys : delete_timer(k[1], k[2], TRUE, "ok")

EditCmd ==
    \E k \in EditKeys, iv \in EditIntervals, u \in EditUnits, o \in EditOwners :
       edit_timer(k[1], k[2], iv, u, o, None, "ok")

ListCmd == \E g \in Guilds : list_timers_cmd(g)

NextCmd ==
    \/ TickStart
    \/ TickNextGuild
    \/ TickVisit
    \/ TickSendOk
    \/ TickEnd("ok", FALSE)
    \/ CreateCmd
    \/ DoneCmd
    \/ DeleteCmd
    \/ EditCmd
    \/ ListCmd
    \/ Advance

SpecCmd == InitCmd /\ [][NextCmd]_vars

(* C13: done_timer on a timer that is not pending answers "was not         *)
(* pending" and changes neither that timer, nor the rest of the registry,  *)
(* nor the settings, nor the file; done_timer on a name that is not in the *)
(* registry answers "not found" and changes none of them either.           *)
C13_DoneRejectedChangesNothing ==
    [][\A k \in CmdKeys :
         (/\ tick' = tick
          /\ clock' = clock
          /\ ~(HasTimer(timers, k[1], k[2]) /\ Timer(timers, k[1], k[2]).is_pending)
          /\ done_timer(k[1], k[2], "ok"))
         => /\ obs'.reply.cmd = "done"
            /\ <<obs'.reply.g, obs'.reply.n>> = k
            /\ obs'.reply.text = IF HasTimer(timers, k[1], k[2])
                                 THEN "not_pending" ELSE "not_found"
            /\ timers' = timers
            /\ global_settings' = global_settings
            /\ file' = file
      ]_vars

(* /done has been refused for a timer that is not pending, while the file  *)
(* is behind the registry                                                  *)
C13_Witness ==
    /\ obs.reply.cmd = "done"
    /\ obs.reply.text = "not_pending"
    /\ HasTimer(timers, obs.reply.g, obs.reply.n)
    /\ ~Timer(timers, obs.reply.g, obs.reply.n).is_pending
    /\ file.doc # Serialize(timers, global_settings)

(* C14: no step changes the next_due of a timer that is pending after the  *)
(* step: not the send that makes it pending, not a repeat reminder, not an *)
(* edit of interval_value or interval_unit.  So from becoming pending to   *)
(* being marked done a timer keeps the next_due it became pending with.    *)
C14_PendingKeepsNextDue ==
    [][\A k \in CmdKeys :
         (/\ HasTimer(timers, k[1], k[2])
          /\ HasTimer(timers', k[1], k[2])
          /\ Timer(timers', k[1], k[2]).is_pending)
         => Timer(timers', k[1], k[2]).next_due = Timer(timers, k[1], k[2]).next_due
      ]_vars

(* A pending timer whose interval has been edited to 2 days and which has  *)
(* been reminded again, with the next_due of its creation at day 0 with an *)
(* interval of 1 day                                                       *)
C14_Witness ==
    /\ obs.reply.cmd = "edit"
    /\ obs.reply.text = "updated"
    /\ HasTimer(timers, obs.reply.g, obs.reply.n)
    /\ Timer(timers, obs.reply.g, obs.reply.n).is_pending
    /\ Timer(timers, obs.reply.g, obs.reply.n).interval_value = 2
    /\ Timer(timers, obs.reply.g, obs.reply.n).next_due = Some(Timedelta(1))
    /\ Timer(timers, obs.reply.g, obs.reply.n).last_reminded = Some(2 * Timedelta(1))

OtherGuildsSame(g) ==
    \A g2 \in Guilds \ {g} :
       /\ Has(timers', g2) = Has(timers, g2)
       /\ Has(timers, g2) => Get(timers', g2) = Get(timers, g2)

(* C15: create_timer with valid arguments for a (guild, name) that is in   *)
(* the registry answers "already exists" and leaves registry and file as   *)
(* they are; for a (guild, name) that is not in the registry it answers    *)
(* "created" and inserts the timer, also when another guild has a timer of *)
(* that name, which stays as it is; and a command step that changes the    *)
(* registry changes only the timers of the guild it was issued in.         *)
C15_DuplicateNamePerGuild ==
    [][/\ \A k \in CmdKeys, iv \in CmdIntervals, u \in CmdUnits :
            (/\ iv > 0
             /\ Lower(u) \in ValidUnits
             /\ tick' = tick
             /\ clock' = clock
             /\ obs'.reply.cmd = "create"
             /\ <<obs'.reply.g, obs'.reply.n>> = k
             /\ create_timer(k[1], k[1], k[2], iv, u, "o1", "d1", "ok"))
            => IF HasTimer(timers, k[1], k[2])
               THEN /\ obs'.reply.text = "already_exists"
                    /\ timers' = timers
                    /\ file' = file
               ELSE /\ obs'.reply.text = "created"
                    /\ HasTimer(timers', k[1], k[2])
                    /\ AllKeys(timers') = AllKeys(timers) \cup {k}
                    /\ \A k2 \in AllKeys(timers) :
                          Timer(timers', k2[1], k2[2]) = Timer(timers, k2[1], k2[2])
                    /\ OtherGuildsSame(k[1])
       /\ (tick' = tick /\ timers' # timers) => OtherGuildsSame(obs'.reply.g)
      ]_vars

(* Two guilds have a timer of the same name, and a further create of that  *)
(* name in one of them has been refused                                    *)
C15_Witness ==
    /\ obs.reply.cmd = "create"
    /\ obs.reply.text = "already_exists"
    /\ \A g \in Guilds : HasTimer(timers, g, obs.reply.n)
    /\ \E g \in Guilds : Timer(timers, g, obs.reply.n).is_pending

(* The length in days of an interval of a valid unit *)
IntervalDays(interval_value, unit) ==
    CASE unit = "days" -> interval_value
      [] unit = "weeks" -> 7 * interval_value
      [] unit = "months" -> 30 * interval_value

(* The timer a successful create inserts, given its next_due *)
CreatedTimer(k, iv, u, due) ==
    [name |-> k[2], interval_value |-> iv, interval_unit |-> Lower(u),
     description |-> "d1", owner |-> "o1", channel_id |-> k[1],
     next_due |-> Some(due), is_pending |-> FALSE, last_reminded |-> None]

(* A create_timer step for k with these arguments *)
CreateStep(k, iv, u) ==
    /\ tick' = tick
    /\ clock' = clock
    /\ obs'.reply.cmd = "create"
    /\ <<obs'.reply.g, obs'.reply.n>> = k
    /\ create_timer(k[1], k[1], k[2], iv, u, "o1", "d1", "ok")

(* C16 as stated: a successful create at time t0 inserts a timer with      *)
(* next_due = t0 + the interval, is_pending = false and last_reminded      *)
(* absent; a create with interval_value <= 0 or an invalid unit is         *)
(* rejected and leaves the registry unchanged.                             *)
C16_CreateDueFromInstant ==
    [][\A k \in CmdKeys, iv \in CmdIntervals, u \in CmdUnits :
         CreateStep(k, iv, u)
         => IF iv <= 0 \/ Lower(u) \notin ValidUnits
            THEN timers' = timers
            ELSE ~HasTimer(timers, k[1], k[2])
                 => /\ HasTimer(timers', k[1], k[2])
                    /\ Timer(timers', k[1], k[2]) =
                         CreatedTimer(k, iv, u, clock + IntervalDays(iv, Lower(u)) * DayLen)
      ]_vars

(* C16 amended: a successful create at time t0 inserts a timer with        *)
(* next_due = 00:00 of t0's day + the interval, is_pending = false and     *)
(* last_reminded absent, and saves; a create with interval_value <= 0 or   *)
(* an invalid unit answers with the error and leaves registry and file     *)
(* unchanged.                                                              *)
C16_CreateDueFromStartOfDay ==
    [][\A k \in CmdKeys, iv \in CmdIntervals, u \in CmdUnits :
         CreateStep(k, iv, u)
         => IF iv <= 0 \/ Lower(u) \notin ValidUnits
            THEN /\ timers' = timers
                 /\ file' = file
                 /\ obs'.reply.text = IF iv <= 0 THEN "not_positive" ELSE "invalid_unit"
            ELSE ~HasTimer(timers, k[1], k[2])
                 => /\ HasTimer(timers', k[1], k[2])
                    /\ Timer(timers', k[1], k[2]) =
                         CreatedTimer(k, iv, u, (clock \div DayLen) * DayLen
                                                + IntervalDays(iv, Lower(u)) * DayLen)
                    /\ obs'.reply.text = "created"
                    /\ file'.doc = Serialize(timers', global_settings)
      ]_vars

(* A timer has just been created at an instant that is not the start of a  *)
(* day, and is due one day after the start of that day                     *)
C16_Witness ==
    /\ obs.reply.cmd = "create"
    /\ obs.reply.text = "created"
    /\ clock % DayLen # 0
    /\ HasTimer(timers, obs.reply.g, obs.reply.n)
    /\ Timer(timers, obs.reply.g, obs.reply.n) =
         CreatedTimer(<<obs.reply.g, obs.reply.n>>, 1, "days", clock - (clock % DayLen) + DayLen)

(* An edit_timer step for k with these arguments (description not given) *)
EditStep(k, iv, u, o) ==
    /\ tick' = tick
    /\ clock' = clock
    /\ obs'.reply.cmd = "edit"
    /\ <<obs'.reply.g, obs'.reply.n>> = k
    /\ edit_timer(k[1], k[2], iv, u, o, None, "ok")

(* C17: an edit_timer step on a timer changes none of the fields the edit  *)
(* does not supply, nor name, channel_id, is_pending and last_reminded; an *)
(* edit that is accepted sets the supplied fields; and next_due becomes    *)
(* calculate_next_due(interval of the timer, now) when the edit has        *)
(* changed interval_value or interval_unit and the timer is not pending,   *)
(* and stays as it is otherwise.                                           *)
C17_EditFrame ==
    [][\A k \in EditKeys, iv \in EditIntervals, u \in EditUnits, o \in EditOwners :
         (EditStep(k, iv, u, o) /\ HasTimer(timers, k[1], k[2]))
         => LET t == Timer(timers, k[1], k[2])
                t2 == Timer(timers', k[1], k[2])
                accepted == obs'.reply.text \in {"updated", "no_changes"}
            IN  /\ HasTimer(timers', k[1], k[2])
                /\ AllKeys(timers') = AllKeys(timers)
                /\ t2.name = t.name
                /\ t2.channel_id = t.channel_id
                /\ t2.description = t.description
                /\ t2.is_pending = t.is_pending
                /\ t2.last_reminded = t.last_reminded
                /\ iv = None => t2.interval_value = t.interval_value
                /\ u = None => t2.interval_unit = t.interval_unit
                /\ o = None => t2.owner = t.owner
                /\ accepted
                     => /\ iv # None => t2.interval_value = Val(iv)
                        /\ u # None => t2.interval_unit = Lower(Val(u))
                        /\ o # None => t2.owner = Val(o)
                /\ t2.next_due =
                     IF (t2.interval_value # t.interval_value
                         \/ t2.interval_unit # t.interval_unit
                         \/ (accepted /\ (iv # None \/ u # None)))
                        /\ ~t.is_pending
                     THEN calculate_next_due(t2.interval_value, t2.interval_unit, clock).value
                     ELSE t.next_due
      ]_vars

(* A delete_timer step by a member with Manage Server, a list_timers_cmd   *)
(* step, and a step of the tick that reaches a timer of its snapshot       *)
DeleteStep(k) ==
    /\ tick' = tick
    /\ clock' = clock
    /\ obs'.reply.cmd = "delete"
    /\ <<obs'.reply.g, obs'.reply.n>> = k
    /\ delete_timer(k[1], k[2], TRUE, "ok")

ListStep(g) ==
    /\ tick' = tick
    /\ clock' = clock
    /\ obs'.reply.cmd = "list"
    /\ obs'.reply.g = g
    /\ list_timers_cmd(g)

VisitStep ==
    /\ tick.pc = "names"
    /\ Len(obs'.visited) = Len(obs.visited) + 1

(* C18: delete_timer of a timer that is in the registry removes that timer *)
(* and no other, leaves every other timer as it was, removes the guild's   *)
(* entry from the registry exactly when the timer was the guild's last,    *)
(* and saves; list_timers_cmd for a guild without timers, its entry being  *)
(* removed or not, answers "no timers" and changes nothing; and the tick   *)
(* evaluates, and sends for, only timers that are in the registry when it  *)
(* reaches them: a deleted timer is skipped.                               *)
C18_DeleteRemovesExactlyThatTimer ==
    [][/\ \A k \in CmdKeys :
            (DeleteStep(k) /\ HasTimer(timers, k[1], k[2]))
            => /\ obs'.reply.text = "deleted"
               /\ AllKeys(timers') = AllKeys(timers) \ {k}
               /\ \A k2 \in AllKeys(timers') :
                     Timer(timers', k2[1], k2[2]) = Timer(timers, k2[1], k2[2])
               /\ OtherGuildsSame(k[1])
               /\ Has(timers', k[1]) <=> (\E k2 \in AllKeys(timers) \ {k} : k2[1] = k[1])
               /\ global_settings' = global_settings
               /\ file'.doc = Serialize(timers', global_settings)
       /\ \A g \in Guilds :
            ListStep(g)
            => /\ obs'.reply.text = IF \E k \in AllKeys(timers) : k[1] = g
                                    THEN "listed" ELSE "no_timers"
               /\ timers' = timers
               /\ file' = file
       /\ VisitStep
            => LET v == obs'.visited[Len(obs'.visited)]
               IN  IF HasTimer(timers, v.g, v.n)
                   THEN v.seen = Some(Timer(timers, v.g, v.n))
                   ELSE /\ v.what = "absent"
                        /\ v.seen = None
                        /\ tick'.pc = "names"
                        /\ timers' = timers
      ]_vars

(* The only timer of a guild has just been deleted while the tick, which   *)
(* started with that timer in the registry, is suspended in a send for     *)
(* another guild's timer: the guild has no entry any more and the other    *)
(* guild's timer is still there                                            *)
C18_Witness ==
    /\ obs.reply.cmd = "delete"
    /\ obs.reply.text = "deleted"
    /\ ~Has(timers, obs.reply.g)
    /\ <<obs.reply.g, obs.reply.n>> \in obs.start
    /\ tick.pc = "await_send"
    /\ \E k \in AllKeys(timers) : k[1] # obs.reply.g

(* C28: an edit_timer step that answers with a validation error (the      *)
(* interval value is not positive, or the unit is not days, weeks or       *)
(* months) leaves the registry in memory as it was, every field of the     *)
(* timer included, whatever other arguments came with the rejected one.    *)
C28_RejectedEditChangesNothing ==
    [][\A k \in EditKeys, iv \in EditIntervals, u \in EditUnits, o \in EditOwners :
         (/\ EditStep(k, iv, u, o)
          /\ obs'.reply.text \in {"not_positive", "invalid_unit"})
         => timers' = timers
      ]_vars

(* C26: in every reachable state a pending timer has next_due set, and    *)
(* last_reminded set and not before next_due: it became pending at or      *)
(* after its due instant.  Commands served while the tick is suspended in  *)
(* the timer's "now due" send are among the steps of Spec.                 *)
C26_PendingDueBeforeReminded ==
    \A k \in AllKeys(timers) :
       LET t == Timer(timers, k[1], k[2])
       IN  t.is_pending
           => /\ t.next_due # None
              /\ t.last_reminded # None
              /\ Val(t.next_due) <= Val(t.last_reminded)

----------------------------------------------------------------------------
(* The commands of two guilds side by side, with timers of the same name   *)
(* in both, and the embed of list_timers_cmd recorded in obs.reply.listed. *)

FrameObs == [NoObs EXCEPT !.reply = [NoReply EXCEPT !.on = TRUE, !.full = TRUE],
                          !.cap = MaxInterleaveCmd]

InitFrame == InitObs(FrameObs, {1}, {NoFile})

CreateFrame ==
    \E k \in CmdKeys : \E c \in ChannelsOf(k[1]) :
       create_timer(k[1], c, k[2], 1, "days", "o1", "d1", "ok")

EditFrame ==
    \E k \in CmdKeys : edit_timer(k[1], k[2], Some(2), None, Some("o2"), None, "ok")

NextFrame ==
    \/ TickStart
    \/ TickNextGuild
    \/ TickVisit
    \/ TickSendOk
    \/ TickEnd("ok", FALSE)
    \/ CreateFrame
    \/ DoneCmd
    \/ DeleteCmd
    \/ EditFrame
    \/ ListCmd
    \/ Advance

SpecFrame == InitFrame /\ [][NextFrame]_vars

(* A step of create_timer, edit_timer, done_timer or delete_timer issued   *)
(* in guild g                                                              *)
FrameCommand(g) ==
    /\ tick' = tick
    /\ clock' = clock
    /\ obs'.reply.g = g
    /\ \E k \in CmdKeys :
          /\ k[1] = g
          /\ obs'.reply.n = k[2]
          /\ \/ obs'.reply.cmd = "create"
                /\ create_timer(g, g, k[2], 1, "days", "o1", "d1", "ok")
             \/ obs'.reply.cmd = "edit"
                /\ edit_timer(g, k[2], Some(2), None, Some("o2"), None, "ok")
             \/ obs'.reply.cmd = "done"
                /\ done_timer(g, k[2], "ok")
             \/ obs'.reply.cmd = "delete"
                /\ delete_timer(g, k[2], TRUE, "ok")

(* C29: a create_timer, edit_timer, done_timer or delete_timer step issued *)
(* in guild g leaves the entry and the timers of every other guild as they *)
(* were; and the embed list_timers_cmd answers with in guild g shows       *)
(* timers of g only: each timer of g once, as it is in the registry, and   *)
(* nothing else.                                                           *)
C29_CommandsStayInTheirGuild ==
    [][\A g \in Guilds :
         /\ FrameCommand(g) => OtherGuildsSame(g)
         /\ ListStep(g)
            => LET listed == obs'.reply.listed
                   mine == {k \in AllKeys(timers) : k[1] = g}
               IN  /\ timers' = timers
                   /\ Len(listed) = Cardinality(mine)
                   /\ \A i \in 1..Len(listed) :
                         /\ <<g, listed[i].name>> \in mine
                         /\ listed[i] = Timer(timers, g, listed[i].name)
                   /\ \A i, j \in 1..Len(listed) :
                         listed[i].name = listed[j].name => i = j
      ]_vars

(* list_timers_cmd has just shown the one timer of a guild while another   *)
(* guild has a timer of the same name that differs from it                 *)
C29_Witness ==
    /\ obs.reply.cmd = "list"
    /\ obs.reply.text = "listed"
    /\ Len(obs.reply.listed) = 1
    /\ HasTimer(timers, obs.reply.g, obs.reply.listed[1].name)
    /\ obs.reply.listed[1] = Timer(timers, obs.reply.g, obs.reply.listed[1].name)
    /\ \E g \in Guilds \ {obs.reply.g} :
          /\ HasTimer(timers, g, obs.reply.listed[1].name)
          /\ Timer(timers, g, obs.reply.listed[1].name) # obs.reply.listed[1]
          /\ Timer(timers, g, obs.reply.listed[1].name).is_pending

----------------------------------------------------------------------------
(* The cycles of a timer: from create_timer or done_timer to the next      *)
(* done_timer, over several ticks, with sends that fail and commands       *)
(* served while a send is awaited.  obs.cycle counts the "now due"         *)
(* notifications of each timer's current cycle.                            *)

CycleObs == [NoObs EXCEPT !.cycle = [NoCycle EXCEPT !.on = TRUE]]

InitCycle == InitObs(CycleObs, {1}, {NoFile})

CycleKeys == {<<1, "a">>, <<1, "b">>}

CreateCycle ==
    \E k \in CycleKeys : \E c \in ChannelsOf(k[1]) :
       create_timer(k[1], c, k[2], 1, "days", "o1", "d1", "ok")

DoneCycle == \E k \in CycleKeys : done_timer(k[1], k[2], "ok")

DeleteCycle == \E k \in CycleKeys : delete_timer(k[1], k[2], TRUE, "ok")

EditCycle ==
    \E k \in CycleKeys : edit_timer(k[1], k[2], Some(2), None, None, None, "ok")

NextCycle ==
    \/ TickStart
    \/ TickNextGuild
    \/ TickVisit
    \/ TickSendOk
    \/ TickSendForbidden
    \/ TickSendError
    \/ TickEnd("ok", FALSE)
    \/ CreateCycle
    \/ DoneCycle
    \/ DeleteCycle
    \/ EditCycle
    \/ Advance

SpecCycle == InitCycle /\ [][NextCycle]_vars

(* The number of "now due" notifications sent for k, up to 2, since k was  *)
(* created or last marked done                                             *)
DueCount(k) ==
    IF k \in obs.cycle.twice THEN 2
    ELSE IF k \in obs.cycle.once THEN 1
    ELSE 0

(* C30: since a timer was created or last marked done, at most one "now    *)
(* due" notification has been sent for it with success, however many ticks *)
(* have run; every further notification of the cycle is then a "still     *)
(* pending" repeat, the only other kind the tick sends.                    *)
C30_OneDueNotificationPerCycle ==
    \A k \in CycleKeys : DueCount(k) <= 1

(* A timer has had its "now due" notification in an earlier tick and gets  *)
(* a "still pending" repeat in this one                                    *)
C30_Witness ==
    \E k \in CycleKeys :
       /\ DueCount(k) = 1
       /\ HasTimer(timers, k[1], k[2])
       /\ Timer(timers, k[1], k[2]).is_pending
       /\ \E j \in 1..Len(obs.sent) :
             obs.sent[j] = [g |-> k[1], n |-> k[2], kind |-> "repeat", result |-> "ok"]

----------------------------------------------------------------------------
(* The persistence store: commands and ticks whose write of DATA_FILE can  *)
(* fail, and the process stopping at any point and starting again from the *)
(* file.  The write is made to fail in create_timer, in                    *)
(* set_reminder_interval and at the end of the tick; done_timer,           *)
(* delete_timer and edit_timer call the same save_data().                  *)

MaxRestarts == 1
MaxInterleaveStore == 0

(* on_ready after a process start: the module-level initialisation builds  *)
(* global_settings from the environment and an empty registry, then        *)
(* load_data() reads DATA_FILE, and check_timers_task is started.          *)
on_ready(env) ==
    /\ obs.loads < MaxRestarts
    /\ LET l == load_data(file, [reminder_repeat_days |->
                                   REMINDER_REPEAT_DAYS_DEFAULT_ENV(env)])
       IN  /\ timers' = l.timers
           /\ global_settings' = l.global_settings
    /\ tick' = IdleTick
    /\ obs' = [NoObs EXCEPT !.reply = [NoReply EXCEPT !.on = obs.reply.on,
                                                       !.full = obs.reply.full],
                            !.cap = obs.cap,
                            !.loads = obs.loads + 1,
                            !.cycle = obs.cycle]
    /\ UNCHANGED <<file, clock, channels>>

(* A file whose settings hold a reminder_repeat_days of 0 *)
BadSettingsFile ==
    [exists |-> TRUE, whole |-> TRUE,
     doc |-> [global_settings |-> [reminder_repeat_days |-> 0],
              timers |-> <<>>]]

(* A file with a pending timer whose last_reminded text does not parse *)
BadRemindedFile ==
    [exists |-> TRUE, whole |-> TRUE,
     doc |-> [global_settings |-> [reminder_repeat_days |-> 1],
              timers |-> <<[k |-> str(1),
                            v |-> <<[k |-> "a",
                                     v |-> [name |-> "a", interval_value |-> 1,
                                            interval_unit |-> "days",
                                            description |-> "d1", owner |-> "o1",
                                            channel_id |-> 1,
                                            next_due |-> Some(isoformat(0)),
                                            is_pending |-> TRUE,
                                            last_reminded |-> Some([date |-> 0, time |-> DayLen])]]>>]>>]]

StoreEnvs == {0}
StoreKeys == {<<1, "a">>, <<2, "a">>}
IOs == {"ok", "open_fails", "write_fails"}

StoreObs == [NoObs EXCEPT !.reply = [NoReply EXCEPT !.on = TRUE],
                          !.cap = MaxInterleaveStore]

InitStore == InitObs(StoreObs, StoreEnvs, {NoFile})

CreateStore ==
    \E k \in StoreKeys, io \in IOs : \E c \in ChannelsOf(k[1]) :
       create_timer(k[1], c, k[2], 1, "days", "o1", "d1", io)

DoneStore == \E k \in StoreKeys : done_timer(k[1], k[2], "ok")

DeleteStore == \E k \in StoreKeys : delete_timer(k[1], k[2], TRUE, "ok")

EditStore ==
    \E k \in StoreKeys :
       edit_timer(k[1], k[2], Some(2), None, None, None, "ok")

SetIntervalStore ==
    \E days \in 0..MaxRepeatDays, io \in IOs : set_reminder_interval(days, TRUE, io)

TickEndStore == \E io \in IOs : TickEnd(io, FALSE)

Restart == \E env \in StoreEnvs : on_ready(env)

NextStore ==
    \/ TickStart
    \/ TickNextGuild
    \/ TickVisit
    \/ TickSendOk
    \/ TickEndStore
    \/ CreateStore
    \/ DoneStore
    \/ DeleteStore
    \/ EditStore
    \/ SetIntervalStore
    \/ Advance
    \/ Restart

SpecStore == InitStore /\ [][NextStore]_vars

(* C21: saving the registry and settings of any reachable state and        *)
(* loading the file that results gives back that registry and those        *)
(* settings: same guilds, same names in the same order, same field values, *)
(* absent next_due and last_reminded still absent; whatever the settings   *)
(* the loading process built from its environment.                         *)
C21_LoadOfSaveIsIdentity ==
    \A env \in 0..1 :
       load_data(save_data(timers, global_settings, file, "ok"),
                 [reminder_repeat_days |-> REMINDER_REPEAT_DAYS_DEFAULT_ENV(env)])
         = [timers |-> timers, global_settings |-> global_settings]

(* The process has started again from a file a command saved: the registry *)
(* it loaded is the one the file was saved from, with a pending timer      *)
(* reminded at an instant that is not the start of a day, and a timer that *)
(* is not pending and has no last_reminded                                 *)
C21_Witness ==
    /\ obs.loads = 1
    /\ tick.pc = "idle"
    /\ file.exists /\ file.whole
    /\ file.doc = Serialize(timers, global_settings)
    /\ \E k \in AllKeys(timers) :
          /\ Timer(timers, k[1], k[2]).is_pending
          /\ Timer(timers, k[1], k[2]).last_reminded # None
          /\ Val(Timer(timers, k[1], k[2]).last_reminded) % DayLen # 0
    /\ \E k \in AllKeys(timers) :
          /\ ~Timer(timers, k[1], k[2]).is_pending
          /\ Timer(timers, k[1], k[2]).last_reminded = None

(* A step of a command handler of SpecStore whose write of the file, if    *)
(* it makes one, has the outcome io                                        *)
StoreCommand(io) ==
    /\ tick' = tick
    /\ clock' = clock
    /\ \/ \E k \in StoreKeys :
             /\ obs'.reply.cmd = "create"
             /\ create_timer(k[1], k[1], k[2], 1, "days", "o1", "d1", io)
       \/ \E k \in StoreKeys :
             /\ obs'.reply.cmd = "done"
             /\ done_timer(k[1], k[2], io)
       \/ \E k \in StoreKeys :
             /\ obs'.reply.cmd = "delete"
             /\ delete_timer(k[1], k[2], TRUE, io)
       \/ \E k \in StoreKeys :
             /\ obs'.reply.cmd = "edit"
             /\ edit_timer(k[1], k[2], Some(2), None, None, None, io)
       \/ \E days \in 0..MaxRepeatDays :
             /\ obs'.reply.cmd = "set_reminder_interval"
             /\ set_reminder_interval(days, TRUE, io)

(* The handler has answered that the command was carried out *)
Accepted == obs'.reply.text \in {"created", "done", "deleted", "updated", "set"}

(* C22: when create_timer, edit_timer, done_timer, delete_timer or         *)
(* set_reminder_interval answers that the command was carried out, and the *)
(* write of the file succeeded, the file holds the complete document of    *)
(* the registry and settings as they are in memory when the handler        *)
(* returns.                                                                *)
C22_AcceptedCommandIsPersisted ==
    [][(StoreCommand("ok") /\ Accepted)
       => /\ file'.exists
          /\ file'.whole
          /\ file'.doc = Serialize(timers', global_settings')
      ]_vars

(* A command has just been carried out in a registry of two timers, one of *)
(* them pending, with a reminder interval that is not the default: the     *)
(* file holds exactly this state                                           *)
C22_Witness ==
    /\ obs.reply.text \in {"created", "done", "deleted", "updated", "set"}
    /\ obs.loads = 0
    /\ tick.pc = "idle"
    /\ Cardinality(AllKeys(timers)) = 2
    /\ \E k \in AllKeys(timers) : Timer(timers, k[1], k[2]).is_pending
    /\ file.exists /\ file.whole
    /\ file.doc = Serialize(timers, global_settings)
    /\ global_settings.reminder_repeat_days # DEFAULT_REMINDER_DAYS

(* The outcomes of the write in which the file is not written *)
SaveFails == {"open_fails", "write_fails"}

(* C23: when the write of the file fails in a command handler that has     *)
(* changed the registry or the settings, the handler learns of it and does *)
(* not answer with its success message but with the error, it returns      *)
(* normally, and the change stays in memory; when the write fails at the   *)
(* end of a tick, the tick ends normally and registry and settings are as  *)
(* the tick left them.                                                     *)
C23_SaveFailureReported ==
    [][/\ \A io \in SaveFails :
            (/\ StoreCommand(io)
             /\ <<timers', global_settings'>> # <<timers, global_settings>>)
            => /\ obs'.reply.text = "error"
               /\ tick' = tick
       /\ \A io \in SaveFails :
            (tick.pc = "end" /\ tick.data_to_save /\ TickEnd(io, FALSE))
            => /\ tick' = IdleTick
               /\ timers' = timers
               /\ global_settings' = global_settings
      ]_vars

(* C24: every step leaves the file either as it was or holding the        *)
(* complete document of the registry and settings being saved; the file is *)
(* never left empty or with part of a document.                            *)
C24_SaveIsAtomic ==
    [][\/ file' = file
       \/ /\ file'.exists
          /\ file'.whole
          /\ file'.doc = Serialize(timers', global_settings')
      ]_vars

----------------------------------------------------------------------------
(* Starting from a file that an earlier version, another program or a hand *)
(* has written: load_data() takes what it can read of it.  All writes      *)
(* succeed here.                                                           *)

LoadFiles == {BadSettingsFile, BadRemindedFile}

InitLoad == InitObs(StoreObs, StoreEnvs, LoadFiles)

CreateLoad ==
    \E k \in StoreKeys : \E c \in ChannelsOf(k[1]) :
       create_timer(k[1], c, k[2], 1, "days", "o1", "d1", "ok")

SetIntervalLoad ==
    \E days \in 0..MaxRepeatDays : set_reminder_interval(days, TRUE, "ok")

NextLoad ==
    \/ TickStart
    \/ TickNextGuild
    \/ TickVisit
    \/ TickSendOk
    \/ TickEnd("ok", FALSE)
    \/ CreateLoad
    \/ DoneStore
    \/ DeleteStore
    \/ EditStore
    \/ SetIntervalLoad
    \/ Advance
    \/ Restart

SpecLoad == InitLoad /\ [][NextLoad]_vars

(* A step of set_reminder_interval with the argument days *)
SetIntervalStep(days) ==
    /\ tick' = tick
    /\ clock' = clock
    /\ obs'.reply.cmd = "set_reminder_interval"
    /\ set_reminder_interval(days, TRUE, "ok")

(* C25: from the start of the process on, reminder_repeat_days is a        *)
(* positive integer; a step that is not a process start changes it only if *)
(* it is a set_reminder_interval step with days > 0, which sets it to      *)
(* days; set_reminder_interval with days <= 0 answers with the error and   *)
(* leaves it unchanged.                                                    *)
C25_RepeatDaysPositiveAndSetOnlyByCommand ==
    /\ [](global_settings.reminder_repeat_days > 0)
    /\ [][/\ (global_settings' # global_settings /\ obs'.loads = obs.loads)
             => \E days \in 1..MaxRepeatDays :
                   /\ SetIntervalStep(days)
                   /\ global_settings'.reminder_repeat_days = days
          /\ \A days \in 0..MaxRepeatDays :
               (SetIntervalStep(days) /\ days <= 0)
               => /\ obs'.reply.text = "not_positive"
                  /\ global_settings' = global_settings
         ]_vars

(* C27: a timer that is pending has last_reminded set, in every reachable  *)
(* state, the states load_data produces included.                          *)
C27_PendingHasLastReminded ==
    \A k \in AllKeys(timers) :
       Timer(timers, k[1], k[2]).is_pending
       => Timer(timers, k[1], k[2]).last_reminded # None

----------------------------------------------------------------------------
(* calculate_next_due on its own: called with every positive interval up   *)
(* to MaxInterval, every unit (in either case) and every start time up to  *)
(* MaxTime; obs.call holds the last call and its result.                   *)

MaxInterval == 4

DueUnits == {"days", "weeks", "months", "Days", "Weeks", "Months"}

calculate_next_due_call ==
    /\ \E interval_value \in 1..MaxInterval, interval_unit \in DueUnits :
          obs' = [obs EXCEPT !.call =
                    Some([interval_value |-> interval_value,
                          interval_unit |-> interval_unit,
                          start_time |-> clock,
                          result |-> calculate_next_due(interval_value,
                                                        interval_unit, clock)])]
    /\ UNCHANGED <<timers, global_settings, file, clock, channels, tick>>

NextDue ==
    \/ calculate_next_due_call
    \/ Advance

SpecDue == Init /\ [][NextDue]_vars

(* C19 as stated: for a positive interval_value, calculate_next_due        *)
(* returns the reference time + interval_value days for days, + 7 *        *)
(* interval_value days for weeks, + 30 * interval_value days for months.   *)
C19_ReferencePlusInterval ==
    obs.call # None
    => LET c == Val(obs.call)
       IN  /\ ~c.result.raised
           /\ c.result.value =
                Some(c.start_time
                     + IntervalDays(c.interval_value, Lower(c.interval_unit)) * DayLen)

(* C19 amended: for a positive interval_value, calculate_next_due returns  *)
(* 00:00 of the reference time's day + interval_value days for days, + 7 * *)
(* interval_value days for weeks, + 30 * interval_value days for months,   *)
(* when that instant is not past datetime.max, and raises when it is.      *)
C19_StartOfDayPlusInterval ==
    obs.call # None
    => LET c == Val(obs.call)
           n == c.interval_value
           u == Lower(c.interval_unit)
           midnight == c.start_time - (c.start_time % DayLen)
           due == CASE u = "days" -> midnight + n * DayLen
                    [] u = "weeks" -> midnight + 7 * n * DayLen
                    [] u = "months" -> midnight + 30 * n * DayLen
       IN  IF due <= DatetimeMax
           THEN ~c.result.raised /\ c.result.value = Some(due)
           ELSE c.result.raised

(* A call for 2 months from an instant that is not the start of a day *)
C19_Witness ==
    /\ obs.call # None
    /\ Val(obs.call).interval_unit = "months"
    /\ Val(obs.call).interval_value = 2
    /\ Val(obs.call).start_time % DayLen # 0
    /\ Val(obs.call).result.value =
         Some(StartOfDay(Val(obs.call).start_time) + 60 * DayLen)

(* C20 as stated: for a positive interval_value, a unit of days, weeks or  *)
(* months and a reference time at any time of day, calculate_next_due      *)
(* returns a timestamp, and one strictly after the reference time.         *)
C20_StrictlyAfterReference ==
    obs.call # None
    => /\ ~Val(obs.call).result.raised
       /\ Val(obs.call).result.value # None
       /\ Val(Val(obs.call).result.value) > Val(obs.call).start_time

(* C20 amended: for a positive interval_value, a unit of days, weeks or    *)
(* months and a reference time at any time of day, calculate_next_due      *)
(* returns a timestamp strictly after the reference time, unless the       *)
(* interval ends past datetime.max: then, and only then, it raises and     *)
(* returns nothing.                                                        *)
C20_AfterReferenceOrOverflow ==
    obs.call # None
    => LET c == Val(obs.call)
           days == IntervalDays(c.interval_value, Lower(c.interval_unit))
       IN  IF c.start_time + days * DayLen > DatetimeMax + (c.start_time % DayLen)
           THEN c.result.raised
           ELSE /\ ~c.result.raised
                /\ c.result.value # None
                /\ Val(c.result.value) > c.start_time
                /\ Val(c.result.value) <= c.start_time + days * DayLen

(* A call for 1 day from the last instant of a day: the result is the next *)
(* instant                                                                 *)
C20_Witness ==
    /\ obs.call # None
    /\ Val(obs.call).interval_value = 1
    /\ Val(obs.call).interval_unit = "days"
    /\ Val(obs.call).start_time % DayLen = DayLen - 1
    /\ Val(obs.call).result.value = Some(Val(obs.call).start_time + 1)

====
